---- MODULE Spec2Model ----
(***************************************************************************)
(* Verification model of the Orion chess engine (engine-core, engine-bin). *)
(*                                                                         *)
(* Bitboards (u64) are modelled as the set of their set bits, a subset of  *)
(* 0..63; `<<`/`>>` drop the bits that leave the 64-bit word.              *)
(***************************************************************************)
EXTENDS Integers, Sequences, FiniteSets, TLC

\* ------------------------------------------------------------------------
\* enums.rs / chess_consts.rs
\* ------------------------------------------------------------------------
White == "White"
Black == "Black"
Sides == {White, Black}

Pawn == "Pawn"
Knight == "Knight"
Bishop == "Bishop"
Rook == "Rook"
Queen == "Queen"
King == "King"
None == "None"
NoneSq == 0 - 1

PieceAll == <<Pawn, Knight, Bishop, Rook, Queen, King>>
PROMOTION_PIECES == <<Knight, Bishop, Rook, Queen>>

KingSide == "KingSide"
QueenSide == "QueenSide"

EN_PASSANT == "EN_PASSANT"
DOUBLE_PUSH == "DOUBLE_PUSH"

WHITE_KINGSIDE == "WK"
WHITE_QUEENSIDE == "WQ"
BLACK_KINGSIDE == "BK"
BLACK_QUEENSIDE == "BQ"

BOARD_SIZE == 8
SQUARES_COUNT == 64
MAX_HALF_MOVES_COUNT == 100
MAX_MOVES_COUNT == 4096
EMPTY_BB == {}

Squares == 0..63
SquareSeq == [i \in 1..64 |-> i - 1]

opposite(side) == IF side = White THEN Black ELSE White

rank(sq) == sq \div 8
file(sq) == sq % 8

get_promotion_rank(side) == IF side = White THEN 7 ELSE 0

can_be_en_passant(sq) == sq \in 16..23 \/ sq \in 40..47

is_en_passant_target_for(sq, side) ==
    IF side = White THEN rank(sq) = 5 ELSE rank(sq) = 2

\* variant: the square itself instead of the one behind it
backward_same(sq, side) == sq

backward(sq, side) == IF side = White THEN sq - BOARD_SIZE ELSE sq + BOARD_SIZE

\* Square::try_from(&str): two bytes, file a..h or A..H, rank 1..8
FileChars == <<"a", "b", "c", "d", "e", "f", "g", "h">>
FileCharsUpper == <<"A", "B", "C", "D", "E", "F", "G", "H">>
RankChars == <<"1", "2", "3", "4", "5", "6", "7", "8">>

IndexOf(seq, x) == IF \E i \in 1..Len(seq) : seq[i] = x
                   THEN CHOOSE i \in 1..Len(seq) : seq[i] = x
                   ELSE 0

\* text is a sequence of one-character strings; the result is NoneSq on Err
square_try_from(text) ==
    IF Len(text) # 2 THEN NoneSq
    ELSE CHOOSE sq \in
           {IF f = 0 \/ r = 0 THEN NoneSq ELSE (r - 1) * 8 + (f - 1) :
              f \in {IF IndexOf(FileChars, text[1]) # 0
                     THEN IndexOf(FileChars, text[1])
                     ELSE IndexOf(FileCharsUpper, text[1])},
              r \in {IndexOf(RankChars, text[2])}} : TRUE

\* Display for Square: "<file><rank>"
square_to_string(sq) == <<FileChars[(sq % 8) + 1], RankChars[(sq \div 8) + 1]>>

\* ------------------------------------------------------------------------
\* helpers.rs
\* ------------------------------------------------------------------------
rank_mask(r) == {r * BOARD_SIZE + f : f \in 0..7}
file_mask(f) == {r * BOARD_SIZE + f : r \in 0..7}

Shl(bb, n) == {s + n : s \in bb} \cap Squares
Shr(bb, n) == {s - n : s \in bb} \cap Squares

\* set bits from the least significant one upwards
get_squares_iter(bitboard) ==
    CHOOSE seq \in {SelectSeq(SquareSeq, LAMBDA s : s \in bb) : bb \in {bitboard}} : TRUE

trailing_zeros(bitboard) ==
    CHOOSE n \in {IF bb = {} THEN 64 ELSE CHOOSE s \in bb : \A t \in bb : s <= t :
                  bb \in {bitboard}} : TRUE

NOT_A_FILE_BB == Squares \ file_mask(0)
NOT_H_FILE_BB == Squares \ file_mask(7)
NOT_FIRST_RANK_BB == Squares \ rank_mask(0)
NOT_EIGHTH_RANK_BB == Squares \ rank_mask(7)
NOT_A_B_FILE_BB == Squares \ (file_mask(0) \cup file_mask(1))
NOT_G_H_FILE_BB == Squares \ (file_mask(6) \cup file_mask(7))
NOT_FIRST_SECOND_RANK_BB == Squares \ (rank_mask(0) \cup rank_mask(1))
NOT_SEVENTH_EIGHTH_RANK_BB == Squares \ (rank_mask(6) \cup rank_mask(7))

\* ------------------------------------------------------------------------
\* attack tables
\* ------------------------------------------------------------------------
generate_pawn_attacks_mask(sq, side) ==
    IF side = White
    THEN Shl({sq} \cap NOT_H_FILE_BB, 9) \cup Shl({sq} \cap NOT_A_FILE_BB, 7)
    ELSE Shr({sq} \cap NOT_H_FILE_BB, 7) \cup Shr({sq} \cap NOT_A_FILE_BB, 9)

\* the tables are filled once, entry sq + 1 for square sq
WHITE_PAWN_ATTACKS_TABLE ==
    [i \in 1..SQUARES_COUNT |-> generate_pawn_attacks_mask(i - 1, White)] \o <<>>

BLACK_PAWN_ATTACKS_TABLE ==
    [i \in 1..SQUARES_COUNT |-> generate_pawn_attacks_mask(i - 1, Black)] \o <<>>

get_pawn_attacks_mask(side, sq) ==
    IF side = White THEN WHITE_PAWN_ATTACKS_TABLE[sq + 1] ELSE BLACK_PAWN_ATTACKS_TABLE[sq + 1]

generate_knight_attacks_mask(sq) ==
    Shl({sq} \cap NOT_SEVENTH_EIGHTH_RANK_BB \cap NOT_H_FILE_BB, 17)
    \cup Shl({sq} \cap NOT_EIGHTH_RANK_BB \cap NOT_G_H_FILE_BB, 10)
    \cup Shr({sq} \cap NOT_FIRST_RANK_BB \cap NOT_G_H_FILE_BB, 6)
    \cup Shr({sq} \cap NOT_FIRST_SECOND_RANK_BB \cap NOT_H_FILE_BB, 15)
    \cup Shr({sq} \cap NOT_FIRST_SECOND_RANK_BB \cap NOT_A_FILE_BB, 17)
    \cup Shr({sq} \cap NOT_FIRST_RANK_BB \cap NOT_A_B_FILE_BB, 10)
    \cup Shl({sq} \cap NOT_EIGHTH_RANK_BB \cap NOT_A_B_FILE_BB, 6)
    \cup Shl({sq} \cap NOT_SEVENTH_EIGHTH_RANK_BB \cap NOT_A_FILE_BB, 15)

KNIGHT_ATTACKS_TABLE ==
    [i \in 1..SQUARES_COUNT |-> generate_knight_attacks_mask(i - 1)] \o <<>>

get_knight_attacks_mask(sq) == KNIGHT_ATTACKS_TABLE[sq + 1]

generate_king_attacks_mask(sq) ==
    Shl({sq} \cap NOT_EIGHTH_RANK_BB \cap NOT_H_FILE_BB, 9)
    \cup Shl({sq} \cap NOT_H_FILE_BB, 1)
    \cup Shr({sq} \cap NOT_FIRST_RANK_BB \cap NOT_H_FILE_BB, 7)
    \cup Shr({sq} \cap NOT_FIRST_RANK_BB, 8)
    \cup Shr({sq} \cap NOT_FIRST_RANK_BB \cap NOT_A_FILE_BB, 9)
    \cup Shr({sq} \cap NOT_A_FILE_BB, 1)
    \cup Shl({sq} \cap NOT_EIGHTH_RANK_BB \cap NOT_A_FILE_BB, 7)
    \cup Shl({sq} \cap NOT_EIGHTH_RANK_BB, 8)

KING_ATTACKS_TABLE ==
    [i \in 1..SQUARES_COUNT |-> generate_king_attacks_mask(i - 1)] \o <<>>

get_king_attacks_mask(sq) == KING_ATTACKS_TABLE[sq + 1]

\* One ray of generate_{bishop,rook}_attacks_mask: walk from (r, f) in steps
\* of (dr, df) up to the edge, including and stopping at the first blocker.
RECURSIVE Ray(_, _, _, _, _)
Ray(r, f, dr, df, blockers) ==
    IF r < 0 \/ r >= BOARD_SIZE \/ f < 0 \/ f >= BOARD_SIZE THEN {}
    ELSE IF (r * BOARD_SIZE + f) \in blockers THEN {r * BOARD_SIZE + f}
    ELSE {r * BOARD_SIZE + f} \cup Ray(r + dr, f + df, dr, df, blockers)

generate_bishop_attacks_mask(square, blockers_bb) ==
    CHOOSE attacks \in
      {Ray(rank(sq) + 1, file(sq) + 1, 1, 1, blockers)
       \cup Ray(rank(sq) + 1, file(sq) - 1, 1, -1, blockers)
       \cup Ray(rank(sq) - 1, file(sq) + 1, -1, 1, blockers)
       \cup Ray(rank(sq) - 1, file(sq) - 1, -1, -1, blockers) :
         sq \in {square}, blockers \in {blockers_bb}} : TRUE

generate_rook_attacks_mask(square, blockers_bb) ==
    CHOOSE attacks \in
      {Ray(rank(sq) + 1, file(sq), 1, 0, blockers)
       \cup Ray(rank(sq), file(sq) + 1, 0, 1, blockers)
       \cup Ray(rank(sq) - 1, file(sq), -1, 0, blockers)
       \cup Ray(rank(sq), file(sq) - 1, 0, -1, blockers) :
         sq \in {square}, blockers \in {blockers_bb}} : TRUE

\* relevant occupancy: the rays without the square on the board edge they end on
generate_relevant_bishop_occupancy_mask(sq) ==
    generate_bishop_attacks_mask(sq, {})
    \cap (NOT_A_FILE_BB \cap NOT_H_FILE_BB \cap NOT_FIRST_RANK_BB \cap NOT_EIGHTH_RANK_BB)

generate_relevant_rook_occupancy_mask(sq) ==
    (Ray(rank(sq) + 1, file(sq), 1, 0, {}) \cap NOT_EIGHTH_RANK_BB)
    \cup (Ray(rank(sq), file(sq) + 1, 0, 1, {}) \cap NOT_H_FILE_BB)
    \cup (Ray(rank(sq) - 1, file(sq), -1, 0, {}) \cap NOT_FIRST_RANK_BB)
    \cup (Ray(rank(sq), file(sq) - 1, 0, -1, {}) \cap NOT_A_FILE_BB)

BISHOP_RELEVANT_OCCUPANCY_MASKS ==
    [i \in 1..SQUARES_COUNT |-> generate_relevant_bishop_occupancy_mask(i - 1)] \o <<>>

ROOK_RELEVANT_OCCUPANCY_MASKS ==
    [i \in 1..SQUARES_COUNT |-> generate_relevant_rook_occupancy_mask(i - 1)] \o <<>>

\* The magic index selects the table entry that was filled with
\* generate_*_attacks_mask(square, occupancy & relevant mask).
get_bishop_attacks_mask(square, occupancy) ==
    CHOOSE attacks \in
      {generate_bishop_attacks_mask(sq, occupancy \cap BISHOP_RELEVANT_OCCUPANCY_MASKS[sq + 1]) :
         sq \in {square}} : TRUE

get_rook_attacks_mask(square, occupancy) ==
    CHOOSE attacks \in
      {generate_rook_attacks_mask(sq, occupancy \cap ROOK_RELEVANT_OCCUPANCY_MASKS[sq + 1]) :
         sq \in {square}} : TRUE

get_queen_attacks_mask(square, occupancy) ==
    CHOOSE attacks \in
      {get_bishop_attacks_mask(sq, occ) \cup get_rook_attacks_mask(sq, occ) :
         sq \in {square}, occ \in {occupancy}} : TRUE

\* ------------------------------------------------------------------------
\* board.rs
\* ------------------------------------------------------------------------
GameStateDefault ==
    [side_to_move |-> White, en_passant_square |-> NoneSq, castling_state |-> {},
     half_move_clock |-> 0, full_moves_count |-> 0]

EmptyPieceBitboards ==
    [Pawn |-> EMPTY_BB, Knight |-> EMPTY_BB, Bishop |-> EMPTY_BB,
     Rook |-> EMPTY_BB, Queen |-> EMPTY_BB, King |-> EMPTY_BB]

BoardDefault ==
    [bitboards |-> [White |-> EmptyPieceBitboards, Black |-> EmptyPieceBitboards],
     side_occupancies |-> [White |-> EMPTY_BB, Black |-> EMPTY_BB],
     global_occupancy |-> EMPTY_BB,
     game_state |-> GameStateDefault,
     history |-> <<>>]

get_bb(b, side, piece) == b.bitboards[side][piece]

get_occupancy_bb(b, side) == b.side_occupancies[side]

get_empty_bb(b) == Squares \ b.global_occupancy

recalc_occupancies(board) ==
    CHOOSE result \in
      {CHOOSE r \in
         {[b EXCEPT !.side_occupancies = [White |-> w, Black |-> k],
                    !.global_occupancy = w \cup k] :
            w \in {UNION {get_bb(b, White, PieceAll[i]) : i \in 1..6}},
            k \in {UNION {get_bb(b, Black, PieceAll[i]) : i \in 1..6}}} : TRUE :
         b \in {board}} : TRUE

add_piece(board, side, piece, square) ==
    CHOOSE result \in
      {[b EXCEPT !.bitboards[side][piece] = @ \cup {sq},
                 !.side_occupancies[side] = @ \cup {sq},
                 !.global_occupancy = @ \cup {sq}] :
         b \in {board}, sq \in {square}} : TRUE

remove_piece(board, side, piece, square) ==
    CHOOSE result \in
      {[b EXCEPT !.bitboards[side][piece] = @ \ {sq},
                 !.side_occupancies[side] = @ \ {sq},
                 !.global_occupancy = @ \ {sq}] :
         b \in {board}, sq \in {square}} : TRUE

move_piece(b, side, piece, from, to) ==
    add_piece(remove_piece(b, side, piece, from), side, piece, to)

\* first piece type, in Piece::all() order, whose bitboard holds the square
get_occupancy_piece(board, side, square) ==
    CHOOSE piece \in
      {IF \E i \in 1..6 : sq \in get_bb(b, side, PieceAll[i])
       THEN PieceAll[CHOOSE i \in 1..6 :
                        /\ sq \in get_bb(b, side, PieceAll[i])
                        /\ \A j \in 1..(i - 1) : sq \notin get_bb(b, side, PieceAll[j])]
       ELSE None :
         b \in {board}, sq \in {square}} : TRUE

\* variant: the pawn candidates are looked up with the attacker's own direction
is_square_attacked_own_direction(board, square, attacker_side) ==
    \E b \in {board}, sq \in {square} :
    \E candidates_bishops_bb \in {get_bishop_attacks_mask(sq, b.global_occupancy)},
       candidates_rooks_bb \in {get_rook_attacks_mask(sq, b.global_occupancy)} :
       \/ get_pawn_attacks_mask(attacker_side, sq) \cap get_bb(b, attacker_side, Pawn) # {}
       \/ get_knight_attacks_mask(sq) \cap get_bb(b, attacker_side, Knight) # {}
       \/ get_king_attacks_mask(sq) \cap get_bb(b, attacker_side, King) # {}
       \/ candidates_bishops_bb \cap get_bb(b, attacker_side, Bishop) # {}
       \/ candidates_rooks_bb \cap get_bb(b, attacker_side, Rook) # {}
       \/ (candidates_bishops_bb \cup candidates_rooks_bb) \cap get_bb(b, attacker_side, Queen) # {}

is_square_attacked(board, square, attacker_side) ==
    \E b \in {board}, sq \in {square} :
    \E candidates_bishops_bb \in {get_bishop_attacks_mask(sq, b.global_occupancy)},
       candidates_rooks_bb \in {get_rook_attacks_mask(sq, b.global_occupancy)} :
       \/ get_pawn_attacks_mask(opposite(attacker_side), sq) \cap get_bb(b, attacker_side, Pawn) # {}
       \/ get_knight_attacks_mask(sq) \cap get_bb(b, attacker_side, Knight) # {}
       \/ get_king_attacks_mask(sq) \cap get_bb(b, attacker_side, King) # {}
       \/ candidates_bishops_bb \cap get_bb(b, attacker_side, Bishop) # {}
       \/ candidates_rooks_bb \cap get_bb(b, attacker_side, Rook) # {}
       \/ (candidates_bishops_bb \cup candidates_rooks_bb) \cap get_bb(b, attacker_side, Queen) # {}

\* trailing_zeros of the king bitboard; 64 (no Square) when the side has no king
get_king_square(b, side) == trailing_zeros(get_bb(b, side, King))

HasKing(b, side) == get_bb(b, side, King) # {}

\* Without a king of `side` the square read is out of range and the table
\* lookups past it are undefined (debug builds abort before them, see
\* reads_missing_king); here they are taken to find no attacker.
is_in_check(board, side) ==
    \E b \in {board} :
       /\ HasKing(b, side)
       /\ is_square_attacked(b, get_king_square(b, side), opposite(side))

remove_all(cs, side) ==
    IF side = White THEN cs \ {WHITE_KINGSIDE, WHITE_QUEENSIDE}
    ELSE cs \ {BLACK_KINGSIDE, BLACK_QUEENSIDE}

\* variant: the rights are left as they are
remove_rook_keeps(cs, side, sq) == cs

remove_rook(cs, side, sq) ==
    IF side = White
    THEN (IF sq = 0 THEN cs \ {WHITE_QUEENSIDE}
          ELSE IF sq = 7 THEN cs \ {WHITE_KINGSIDE} ELSE cs)
    ELSE (IF sq = 56 THEN cs \ {BLACK_QUEENSIDE}
          ELSE IF sq = 63 THEN cs \ {BLACK_KINGSIDE} ELSE cs)

\* king side first, then queen side
get_castlings(cs, side) ==
    LET ks == IF side = White THEN WHITE_KINGSIDE \in cs ELSE BLACK_KINGSIDE \in cs
        qs == IF side = White THEN WHITE_QUEENSIDE \in cs ELSE BLACK_QUEENSIDE \in cs
    IN (IF ks THEN <<KingSide>> ELSE <<>>) \o (IF qs THEN <<QueenSide>> ELSE <<>>)

\* Board::eq compares the history by length only
BoardEq(left, right) ==
    \E a \in {left}, b \in {right} :
       /\ a.bitboards = b.bitboards
       /\ a.side_occupancies = b.side_occupancies
       /\ a.global_occupancy = b.global_occupancy
       /\ a.game_state = b.game_state
       /\ Len(a.history) = Len(b.history)

\* ------------------------------------------------------------------------
\* enums.rs: CastlingSide
\* ------------------------------------------------------------------------
EMPTY_MASK(side, cside) ==
    IF side = White
    THEN (IF cside = KingSide THEN {5, 6} ELSE {1, 2, 3})
    ELSE (IF cside = KingSide THEN {61, 62} ELSE {57, 58, 59})

NOT_ATTACKED_MASK(side, cside) ==
    IF side = White
    THEN (IF cside = KingSide THEN {5, 6} \cup {4} ELSE {2, 3, 4})
    ELSE (IF cside = KingSide THEN {61, 62} \cup {60} ELSE {58, 59, 60})

\* <<from, to>> of the king or the rook of a castle
get_castling_positions(side, piece, cside) ==
    IF side = White
    THEN (IF piece = King
          THEN (IF cside = KingSide THEN <<4, 6>> ELSE <<4, 2>>)
          ELSE (IF cside = KingSide THEN <<7, 5>> ELSE <<0, 3>>))
    ELSE (IF piece = King
          THEN (IF cside = KingSide THEN <<60, 62>> ELSE <<60, 58>>)
          ELSE (IF cside = KingSide THEN <<63, 61>> ELSE <<56, 59>>))

NormalMove(from, to, piece, captured, promo, flags) ==
    [kind |-> "Normal", from |-> from, to |-> to, piece |-> piece,
     captured |-> captured, promo |-> promo, flags |-> flags]

CastleMove(cside) == [kind |-> "Castle", side |-> cside]

\* ------------------------------------------------------------------------
\* move_operations.rs
\* ------------------------------------------------------------------------
\* u8 / u16 additions, wrapping as a release build does (a debug build aborts
\* on overflow)
AddU8(x) == (x + 1) % 256
AddU16(x) == (x + 1) % 65536

\* History::push returns Err on a full stack and make_move unwraps it
history_push_fails(b) == Len(b.history) = MAX_MOVES_COUNT

\* History::pop returns None on an empty stack and unmake_move expects Some
history_pop_fails(b) == Len(b.history) = 0

\* History::push of HistoryEntry::new(mv, game_state) on a stack with room
history_push(b, mv) ==
    [b EXCEPT !.history = Append(@, [mv |-> mv, game_state |-> b.game_state])]

\* steps of the Move::Normal arm of make_move
remove_captured_piece(b, mv, moving_side, opponent_side) ==
    IF mv.captured # None
    THEN remove_piece(b, opponent_side, mv.captured,
                      IF EN_PASSANT \in mv.flags THEN backward(mv.to, moving_side) ELSE mv.to)
    ELSE b

castling_after_king_move(cs, mv, moving_side) ==
    IF mv.piece = King THEN remove_all(cs, moving_side) ELSE cs

castling_after_rook_move(cs, mv, moving_side) ==
    IF mv.piece = Rook THEN remove_rook(cs, moving_side, mv.from) ELSE cs

castling_after_rook_capture(cs, mv, opponent_side) ==
    IF mv.captured = Rook THEN remove_rook(cs, opponent_side, mv.to) ELSE cs

\* make_move, MoveType::Normal: the history entry pushed and the en-passant
\* square cleared, the moving piece lifted, the captured piece removed (behind
\* the target square for an en-passant capture), the piece or its promotion
\* put down, then the en-passant square, castling rights and half-move clock
make_normal_move(b, mv, moving_side, opponent_side) ==
    [add_piece(
       remove_captured_piece(
         remove_piece([history_push(b, mv) EXCEPT !.game_state.en_passant_square = NoneSq],
                      moving_side, mv.piece, mv.from),
         mv, moving_side, opponent_side),
       moving_side, IF mv.promo # None THEN mv.promo ELSE mv.piece, mv.to)
     EXCEPT
       !.game_state.en_passant_square =
           IF DOUBLE_PUSH \in mv.flags THEN backward(mv.to, moving_side) ELSE @,
       !.game_state.castling_state =
           castling_after_rook_capture(
             castling_after_rook_move(
               castling_after_king_move(@, mv, moving_side), mv, moving_side),
             mv, opponent_side),
       !.game_state.half_move_clock =
           IF mv.piece = Pawn \/ mv.captured # None THEN 0 ELSE AddU8(@)]

\* make_move, MoveType::Castle: the history entry pushed and the en-passant
\* square cleared, king and rook moved, the clock advanced, the side's rights dropped
make_castle_move(b, mv, moving_side) ==
    [move_piece(
       move_piece([history_push(b, mv) EXCEPT !.game_state.en_passant_square = NoneSq],
                  moving_side, King,
                  get_castling_positions(moving_side, King, mv.side)[1],
                  get_castling_positions(moving_side, King, mv.side)[2]),
       moving_side, Rook,
       get_castling_positions(moving_side, Rook, mv.side)[1],
       get_castling_positions(moving_side, Rook, mv.side)[2])
     EXCEPT !.game_state.half_move_clock = AddU8(@),
            !.game_state.castling_state = remove_all(@, moving_side)]

\* The whole of make_move; the side to move and the full-move count are
\* updated last.  The arguments of the two helpers are values already computed.
make_move(board, move) ==
    CHOOSE result \in
      {[IF mv.kind = "Normal"
        THEN make_normal_move(b, mv, b.game_state.side_to_move,
                              opposite(b.game_state.side_to_move))
        ELSE make_castle_move(b, mv, b.game_state.side_to_move)
        EXCEPT !.game_state.full_moves_count =
                   IF b.game_state.side_to_move = Black THEN AddU16(@) ELSE @,
               !.game_state.side_to_move = opposite(b.game_state.side_to_move)] :
         b \in {board}, mv \in {move}} : TRUE

\* History::pop on a stack that holds an entry
history_pop(b) == [b EXCEPT !.history = SubSeq(@, 1, Len(@) - 1)]

restore_captured_piece(b, mv, moving_side, opponent_side) ==
    IF mv.captured # None
    THEN add_piece(b, opponent_side, mv.captured,
                   IF EN_PASSANT \in mv.flags THEN backward(mv.to, moving_side) ELSE mv.to)
    ELSE b

\* unmake_move, MoveType::Normal
unmake_normal_move(b, mv, moving_side, opponent_side, game_state) ==
    restore_captured_piece(
      add_piece(
        remove_piece([history_pop(b) EXCEPT !.game_state = game_state],
                     moving_side, IF mv.promo # None THEN mv.promo ELSE mv.piece, mv.to),
        moving_side, mv.piece, mv.from),
      mv, moving_side, opponent_side)

\* unmake_move, MoveType::Castle
unmake_castle_move(b, mv, moving_side, game_state) ==
    add_piece(
      add_piece(
        remove_piece(
          remove_piece([history_pop(b) EXCEPT !.game_state = game_state],
                       moving_side, King, get_castling_positions(moving_side, King, mv.side)[2]),
          moving_side, Rook, get_castling_positions(moving_side, Rook, mv.side)[2]),
        moving_side, King, get_castling_positions(moving_side, King, mv.side)[1]),
      moving_side, Rook, get_castling_positions(moving_side, Rook, mv.side)[1])

\* The whole of unmake_move: the last history entry popped, the game state it
\* holds restored, the pieces put back
unmake_move(board) ==
    CHOOSE result \in
      {CHOOSE restored \in
         {IF entry.mv.kind = "Normal"
          THEN unmake_normal_move(b, entry.mv, entry.game_state.side_to_move,
                                  opposite(entry.game_state.side_to_move), entry.game_state)
          ELSE unmake_castle_move(b, entry.mv, entry.game_state.side_to_move,
                                  entry.game_state) :
            entry \in {b.history[Len(b.history)]}} : TRUE :
         b \in {board}} : TRUE

\* ------------------------------------------------------------------------
\* move_generator.rs
\* ------------------------------------------------------------------------
RECURSIVE Flatten(_)
Flatten(seqs) ==
    CHOOSE flat \in {IF ss = <<>> THEN <<>> ELSE Head(ss) \o Flatten(Tail(ss)) :
                     ss \in {seqs}} : TRUE

MapSeq(sequence, F(_)) ==
    CHOOSE mapped \in {[i \in 1..Len(seq) |-> F(seq[i])] \o <<>> : seq \in {sequence}} : TRUE

push_pawn(bb, side) == IF side = White THEN Shl(bb, BOARD_SIZE) ELSE Shr(bb, BOARD_SIZE)

PromoMoves(from, to, captured) ==
    [i \in 1..4 |-> NormalMove(from, to, Pawn, captured, PROMOTION_PIECES[i], {})]

square_shift(side) == IF side = White THEN 8 ELSE -8

\* the pushes of generate_pseudo_legal_pawn_moves: single steps off the
\* promotion rank, single steps onto it (one move per promotion piece), double steps
pawn_push_moves(side, pawn_one_step_bb, empty_bb) ==
    MapSeq(get_squares_iter(pawn_one_step_bb \ rank_mask(get_promotion_rank(side))),
           LAMBDA to : NormalMove(to - square_shift(side), to, Pawn, None, None, {}))
    \o Flatten(MapSeq(
           get_squares_iter(pawn_one_step_bb \cap rank_mask(get_promotion_rank(side))),
           LAMBDA to : PromoMoves(to - square_shift(side), to, None)))
    \o MapSeq(get_squares_iter(
                push_pawn(pawn_one_step_bb \cap rank_mask(IF side = White THEN 2 ELSE 5), side)
                \cap empty_bb),
           LAMBDA to : NormalMove(to - 2 * square_shift(side), to, Pawn, None, None,
                                  {DOUBLE_PUSH}))

\* the captures of one pawn: ordinary captures (promoting on the last rank),
\* then the en-passant capture
pawn_attack_moves(b, side, from, en_passant_sq_bb) ==
    Flatten(MapSeq(
        get_squares_iter(get_pawn_attacks_mask(side, from)
                         \cap get_occupancy_bb(b, opposite(side))),
        LAMBDA to :
            IF rank(to) = get_promotion_rank(side)
            THEN PromoMoves(from, to, get_occupancy_piece(b, opposite(side), to))
            ELSE <<NormalMove(from, to, Pawn, get_occupancy_piece(b, opposite(side), to),
                              None, {})>>))
    \o (IF get_pawn_attacks_mask(side, from) \cap en_passant_sq_bb # {}
        THEN <<NormalMove(from,
                          trailing_zeros(get_pawn_attacks_mask(side, from) \cap en_passant_sq_bb),
                          Pawn, Pawn, None, {EN_PASSANT})>>
        ELSE <<>>)

en_passant_sq_bb_for(b, side) ==
    IF /\ b.game_state.en_passant_square # NoneSq
       /\ is_en_passant_target_for(b.game_state.en_passant_square, side)
    THEN {b.game_state.en_passant_square}
    ELSE EMPTY_BB

generate_pseudo_legal_pawn_moves(board, moving_side) ==
    CHOOSE moves \in
      {CHOOSE m \in
         {pawn_push_moves(side, pawn_one_step_bb, get_empty_bb(b))
          \o Flatten(MapSeq(get_squares_iter(get_bb(b, side, Pawn)),
                            LAMBDA from : pawn_attack_moves(b, side, from, en_passant_sq_bb))) :
            pawn_one_step_bb \in {push_pawn(get_bb(b, side, Pawn), side) \cap get_empty_bb(b)},
            en_passant_sq_bb \in {en_passant_sq_bb_for(b, side)}} : TRUE :
         b \in {board}, side \in {moving_side}} : TRUE

\* generate_leaper_pseudo_legal_moves and generate_sliding_pseudo_legal_moves:
\* per origin square the quiet destinations, then the captures
PieceMovesFrom(b, side, piece, from, attacks) ==
    CHOOSE moves \in
      {MapSeq(get_squares_iter(attacks_bb \cap get_empty_bb(b)),
              LAMBDA to : NormalMove(from, to, piece, None, None, {}))
       \o MapSeq(get_squares_iter(attacks_bb \cap get_occupancy_bb(b, opposite(side))),
              LAMBDA to : NormalMove(from, to, piece,
                                     get_occupancy_piece(b, opposite(side), to), None, {})) :
         attacks_bb \in {attacks}} : TRUE

generate_leaper_pseudo_legal_moves(b, side, piece) ==
    Flatten(MapSeq(get_squares_iter(get_bb(b, side, piece)),
        LAMBDA from : PieceMovesFrom(b, side, piece, from,
            IF piece = Knight THEN get_knight_attacks_mask(from)
            ELSE get_king_attacks_mask(from))))

generate_sliding_pseudo_legal_moves(b, side, piece) ==
    Flatten(MapSeq(get_squares_iter(get_bb(b, side, piece)),
        LAMBDA from : PieceMovesFrom(b, side, piece, from,
            IF piece = Bishop THEN get_bishop_attacks_mask(from, b.global_occupancy)
            ELSE IF piece = Rook THEN get_rook_attacks_mask(from, b.global_occupancy)
            ELSE get_queen_attacks_mask(from, b.global_occupancy))))

castling_allowed(b, side, c) ==
    /\ b.global_occupancy \cap EMPTY_MASK(side, c) = {}
    /\ \A sq \in NOT_ATTACKED_MASK(side, c) : ~is_square_attacked(b, sq, opposite(side))

\* variant: no castle is generated
generate_castling_moves_none(b, side) == <<>>

generate_castling_moves(b, side) ==
    MapSeq(SelectSeq(get_castlings(b.game_state.castling_state, side),
                     LAMBDA c : castling_allowed(b, side, c)),
           LAMBDA c : CastleMove(c))

generate_pseudo_legal_moves(board, moving_side) ==
    CHOOSE moves \in
      {generate_pseudo_legal_pawn_moves(b, side)
       \o generate_leaper_pseudo_legal_moves(b, side, Knight)
       \o generate_sliding_pseudo_legal_moves(b, side, Bishop)
       \o generate_sliding_pseudo_legal_moves(b, side, Rook)
       \o generate_sliding_pseudo_legal_moves(b, side, Queen)
       \o generate_leaper_pseudo_legal_moves(b, side, King)
       \o generate_castling_moves(b, side) :
         b \in {board}, side \in {moving_side}} : TRUE

\* The legality filter works on the board itself: every pseudo-legal move is
\* made, tested and unmade in turn.  The result carries the legal moves and
\* the board the loop leaves behind.
\* One iteration: make, test the mover's king, unmake.
legal_moves_step(b, side, mv) ==
    CHOOSE step \in
      {[moves |-> IF ~is_in_check(made, side) THEN <<mv>> ELSE <<>>,
        board |-> unmake_move(made)] :
         made \in {make_move(b, mv)}} : TRUE

\* The iterations lo..hi in order, each on the board the previous one left
\* (evaluated by halving the range, which keeps the evaluation shallow).
RECURSIVE legal_moves_loop(_, _, _, _, _)
legal_moves_loop(b, side, pseudo, first, last) ==
    CHOOSE result \in
      {IF lo > hi THEN [moves |-> <<>>, board |-> b]
       ELSE IF lo = hi THEN legal_moves_step(b, side, pseudo[lo])
       ELSE CHOOSE both \in
              {CHOOSE lr \in
                 {[moves |-> l.moves \o r.moves, board |-> r.board] :
                    r \in {legal_moves_loop(l.board, side, pseudo, ((lo + hi) \div 2) + 1, hi)}} :
                 TRUE :
                 l \in {legal_moves_loop(b, side, pseudo, lo, (lo + hi) \div 2)}} : TRUE :
         lo \in {first}, hi \in {last}} : TRUE

generate_legal_moves(board, moving_side) ==
    CHOOSE result \in
      {CHOOSE r \in
         {legal_moves_loop(b, side, pseudo_legal_moves, 1, Len(pseudo_legal_moves)) :
            pseudo_legal_moves \in {generate_pseudo_legal_moves(b, side)}} : TRUE :
         b \in {board}, side \in {moving_side}} : TRUE

\* Board::generate_legal_moves_to_vec and Board::generate_all_legal_moves_to_vec
\* (called from messaging.rs and uci.rs): the legal moves in generation order,
\* found by the make / is_in_check / unmake filter
generate_legal_moves_to_vec(board, moving_side) == generate_legal_moves(board, moving_side)

generate_all_legal_moves_to_vec(board, moving_side) == generate_legal_moves(board, moving_side)

\* Board::generate_all_legal_moves (called from perft.rs and searching.rs): the
\* same list, written into the caller's move buffer
generate_all_legal_moves(board, moving_side) == generate_legal_moves(board, moving_side)

\* make_move aborts inside the filter when the history stack is already full
generate_legal_moves_aborts(board, side) ==
    \E b \in {board} : history_push_fails(b) /\ generate_pseudo_legal_moves(b, side) # <<>>

\* get_king_square is read for a side without a king (the legality filter has a
\* move to try): its debug_assert! ends the thread when debug assertions are
\* compiled in; without them the read is undefined and comes back as the
\* out-of-range square 64
reads_missing_king(board, side) ==
    \E b \in {board} : ~HasKing(b, side) /\ generate_pseudo_legal_moves(b, side) # <<>>

\* ------------------------------------------------------------------------
\* fen_parser.rs  (a FEN string is given as its fields, each field a
\* sequence of one-character strings)
\* ------------------------------------------------------------------------
FEN_PARTS_COUNT == 6

FenPieceChars == <<"P", "N", "B", "R", "Q", "K", "p", "n", "b", "r", "q", "k">>
DigitChars == <<"0", "1", "2", "3", "4", "5", "6", "7", "8", "9">>

Ok(b) == [ok |-> TRUE, board |-> b, err |-> None]
Err(e) == [ok |-> FALSE, board |-> BoardDefault, err |-> e]

\* parse_pieces walks the characters with a (rank, file) cursor: a piece is
\* put on the cursor and moves it one file, a digit moves it that many files,
\* '/' needs file = 8 and rank > 0 and starts the next rank.  The cursor in
\* front of character i is given here in closed form.
CharWidth(c) == IF IndexOf(FenPieceChars, c) # 0 THEN 1
                ELSE IF IndexOf(DigitChars, c) >= 2 /\ IndexOf(DigitChars, c) <= 9
                THEN IndexOf(DigitChars, c) - 1 ELSE 0

SumWidths(part, S) ==
    Cardinality({j \in S : CharWidth(part[j]) = 1})
    + 2 * Cardinality({j \in S : CharWidth(part[j]) = 2})
    + 3 * Cardinality({j \in S : CharWidth(part[j]) = 3})
    + 4 * Cardinality({j \in S : CharWidth(part[j]) = 4})
    + 5 * Cardinality({j \in S : CharWidth(part[j]) = 5})
    + 6 * Cardinality({j \in S : CharWidth(part[j]) = 6})
    + 7 * Cardinality({j \in S : CharWidth(part[j]) = 7})
    + 8 * Cardinality({j \in S : CharWidth(part[j]) = 8})

CursorRank(part, i) == 7 - Cardinality({j \in 1..(i - 1) : part[j] = "/"})

CursorFile(part, i) ==
    CHOOSE fl \in
      {SumWidths(part, ((IF slashes = {} THEN 0
                         ELSE CHOOSE j \in slashes : \A k \in slashes : k <= j) + 1)..(i - 1)) :
         slashes \in {{j \in 1..(i - 1) : part[j] = "/"}}} : TRUE

PiecesCharFails(part, i) ==
    \E c \in {part[i]}, rk \in {CursorRank(part, i)}, fl \in {CursorFile(part, i)} :
       IF IndexOf(FenPieceChars, c) # 0 THEN rk * BOARD_SIZE + fl >= 64
       ELSE IF CharWidth(c) # 0 THEN fl + CharWidth(c) > BOARD_SIZE
       ELSE IF c = "/" THEN fl # 8 \/ rk = 0
       ELSE TRUE

FenPlaced(part, c) ==
    {CursorRank(part, i) * BOARD_SIZE + CursorFile(part, i) :
        i \in {j \in 1..Len(part) : part[j] = c}}

FenPlacedSide(b, part, side, chars) ==
    [Pawn   |-> get_bb(b, side, Pawn)   \cup FenPlaced(part, chars[1]),
     Knight |-> get_bb(b, side, Knight) \cup FenPlaced(part, chars[2]),
     Bishop |-> get_bb(b, side, Bishop) \cup FenPlaced(part, chars[3]),
     Rook   |-> get_bb(b, side, Rook)   \cup FenPlaced(part, chars[4]),
     Queen  |-> get_bb(b, side, Queen)  \cup FenPlaced(part, chars[5]),
     King   |-> get_bb(b, side, King)   \cup FenPlaced(part, chars[6])]

parse_pieces(b, pieces_part) ==
    CHOOSE result \in
      {IF \/ \E i \in 1..Len(part) : PiecesCharFails(part, i)
          \/ CursorFile(part, Len(part) + 1) # 8
          \/ CursorRank(part, Len(part) + 1) # 0
       THEN Err("PiecesParse")
       ELSE Ok(recalc_occupancies(
              [b EXCEPT !.bitboards =
                  [White |-> FenPlacedSide(b, part, White, SubSeq(FenPieceChars, 1, 6)),
                   Black |-> FenPlacedSide(b, part, Black, SubSeq(FenPieceChars, 7, 12))]])) :
         part \in {pieces_part}} : TRUE

parse_side_to_move(b, part) ==
    IF Len(part) = 1 /\ part[1] \in {"w", "b"}
    THEN Ok([b EXCEPT !.game_state.side_to_move = IF part[1] = "w" THEN White ELSE Black])
    ELSE Err("SideToMoveParse")

CastlingOfChar(c) ==
    IF c = "K" THEN WHITE_KINGSIDE ELSE IF c = "Q" THEN WHITE_QUEENSIDE
    ELSE IF c = "k" THEN BLACK_KINGSIDE ELSE BLACK_QUEENSIDE

parse_castling_rights(b, part) ==
    IF Len(part) \in 1..4
    THEN (IF \A i \in 1..Len(part) :
                 \/ part[i] \in {"K", "Q", "k", "q"}
                 \/ (part[i] = "-" /\ Len(part) = 1)
          THEN Ok([b EXCEPT !.game_state.castling_state =
                      {CastlingOfChar(part[i]) : i \in {j \in 1..Len(part) : part[j] # "-"}}])
          ELSE Err("CastlingRightsParse"))
    ELSE Err("CastlingRightsParse")

parse_en_passant_square(b, part) ==
    IF Len(part) = 1 /\ part[1] = "-"
    THEN Ok([b EXCEPT !.game_state.en_passant_square = NoneSq])
    ELSE IF Len(part) = 2
    THEN CHOOSE result \in
           {IF sq # NoneSq /\ can_be_en_passant(sq)
            THEN Ok([b EXCEPT !.game_state.en_passant_square = sq])
            ELSE Err("EnPassantSquareParse") :
              sq \in {square_try_from(part)}} : TRUE
    ELSE Err("EnPassantSquareParse")

\* str::parse for an unsigned integer: an optional '+', then decimal digits;
\* -1 when malformed or above max
RECURSIVE digits_value(_, _, _, _)
digits_value(part, i, acc, max) ==
    IF i > Len(part) THEN acc
    ELSE IF IndexOf(DigitChars, part[i]) = 0
            \/ acc * 10 + IndexOf(DigitChars, part[i]) - 1 > max
    THEN 0 - 1
    ELSE digits_value(part, i + 1, acc * 10 + IndexOf(DigitChars, part[i]) - 1, max)

parse_uint(part, max) ==
    IF Len(part) >= 1 /\ part[1] = "+"
    THEN (IF Tail(part) = <<>> THEN 0 - 1 ELSE digits_value(Tail(part), 1, 0, max))
    ELSE (IF part = <<>> THEN 0 - 1 ELSE digits_value(part, 1, 0, max))

parse_half_move_clock(b, part) ==
    CHOOSE result \in
      {IF Len(part) \in 1..3 /\ x >= 0 /\ x <= MAX_HALF_MOVES_COUNT
       THEN Ok([b EXCEPT !.game_state.half_move_clock = x])
       ELSE Err("HalfMoveClockParse") :
         x \in {parse_uint(part, 255)}} : TRUE

parse_full_move_number(b, part) ==
    CHOOSE result \in
      {IF Len(part) \in 1..5 /\ x >= 0
       THEN Ok([b EXCEPT !.game_state.full_moves_count = x])
       ELSE Err("FullMoveCountParse") :
         x \in {parse_uint(part, 65535)}} : TRUE

\* `?` on a field parser's Result: the next parser runs on the board of an Ok
and_then(result, parser(_, _), part) ==
    CHOOSE next \in {IF r.ok THEN parser(r.board, part) ELSE r : r \in {result}} : TRUE

parse_fen_parts(parts) ==
    IF Len(parts) # FEN_PARTS_COUNT THEN Err("IncorrectPartsLength")
    ELSE and_then(
           and_then(
             and_then(
               and_then(
                 and_then(parse_pieces(BoardDefault, parts[1]),
                          parse_side_to_move, parts[2]),
                 parse_castling_rights, parts[3]),
               parse_en_passant_square, parts[4]),
             parse_half_move_clock, parts[5]),
           parse_full_move_number, parts[6])

parse_fen_string(fen_parts) ==
    IF Len(fen_parts) = 4
    THEN parse_fen_parts(fen_parts \o << <<"0">>, <<"1">> >>)
    ELSE parse_fen_parts(fen_parts)

\* ------------------------------------------------------------------------
\* uci.rs  (a command line is given as the tokens split_whitespace yields,
\* each token a sequence of one-character strings)
\* ------------------------------------------------------------------------
NoMove == [kind |-> "NoMove"]
Abort == [ok |-> FALSE, board |-> BoardDefault, err |-> "panic"]
\* the abort only a build with debug assertions takes (debug_assert! in get_king_square)
DebugAbort == [ok |-> FALSE, board |-> BoardDefault, err |-> "debug_assert"]

PromoChar(piece) ==
    IF piece = Knight THEN "n" ELSE IF piece = Bishop THEN "b"
    ELSE IF piece = Rook THEN "r" ELSE "q"

serialize_move_to_uci_str(mv, side) ==
    IF mv.kind = "Normal"
    THEN square_to_string(mv.from) \o square_to_string(mv.to)
         \o (IF mv.promo # None THEN <<PromoChar(mv.promo)>> ELSE <<>>)
    ELSE LET kp == get_castling_positions(side, King, mv.side)
         IN square_to_string(kp[1]) \o square_to_string(kp[2])

\* the first legal move whose UCI string equals move_str, and the board as the
\* legality filter leaves it
parse_uci_move(move_str, b) ==
    CHOOSE result \in
      {CHOOSE r \in
         {[mv |-> IF hits = {} THEN NoMove
                  ELSE gen.moves[CHOOSE i \in hits : \A j \in hits : i <= j],
           board |-> gen.board] :
            hits \in {{i \in 1..Len(gen.moves) :
                         serialize_move_to_uci_str(gen.moves[i], b.game_state.side_to_move)
                         = move_str}}} : TRUE :
         gen \in {generate_all_legal_moves_to_vec(b, b.game_state.side_to_move)}} : TRUE

KW_position == <<"p", "o", "s", "i", "t", "i", "o", "n">>
KW_startpos == <<"s", "t", "a", "r", "t", "p", "o", "s">>
KW_fen == <<"f", "e", "n">>
KW_moves == <<"m", "o", "v", "e", "s">>

START_POS_FEN ==
    << <<"r", "n", "b", "q", "k", "b", "n", "r", "/",
         "p", "p", "p", "p", "p", "p", "p", "p", "/",
         "8", "/", "8", "/", "8", "/", "8", "/",
         "P", "P", "P", "P", "P", "P", "P", "P", "/",
         "R", "N", "B", "Q", "K", "B", "N", "R">>,
       <<"w">>, <<"K", "Q", "k", "q">>, <<"-">>, <<"0">>, <<"1">> >>

get_start_position == parse_fen_string(START_POS_FEN).board

\* one iteration of the loop over the move tokens
position_moves_step(board, token, debug_assertions) ==
    CHOOSE result \in
      {IF generate_legal_moves_aborts(b, b.game_state.side_to_move)
       THEN Abort
       ELSE IF debug_assertions /\ reads_missing_king(b, b.game_state.side_to_move)
       THEN DebugAbort
       ELSE CHOOSE r \in
              {IF p.mv # NoMove THEN Ok(make_move(p.board, p.mv))
               ELSE Err("The move in the move section was invalid") :
                 p \in {parse_uci_move(token, b)}} : TRUE :
         b \in {board}} : TRUE

RECURSIVE position_moves_loop(_, _, _, _, _)
position_moves_loop(b, parts, first, last, debug_assertions) ==
    CHOOSE result \in
      {IF lo > hi THEN Ok(b)
       ELSE IF lo = hi THEN position_moves_step(b, parts[lo], debug_assertions)
       ELSE CHOOSE r \in
              {IF l.ok
               THEN position_moves_loop(l.board, parts, ((lo + hi) \div 2) + 1, hi,
                                        debug_assertions)
               ELSE l :
                 l \in {position_moves_loop(b, parts, lo, (lo + hi) \div 2,
                                            debug_assertions)}} : TRUE :
         lo \in {first}, hi \in {last}} : TRUE

\* map_err on the FEN decoder's Result
and_then_map_err(result) ==
    CHOOSE mapped \in {IF f.ok THEN f ELSE Err("An error occured during parsing the fen string") :
                       f \in {result}} : TRUE

position_start(parts) ==
    IF parts[2] = KW_startpos
    THEN [r |-> Ok(get_start_position), moves_index |-> 2]
    ELSE IF parts[2] = KW_fen
    THEN (IF Len(parts) < 8
          THEN [r |-> Err("The fen position was incorrect"), moves_index |-> 8]
          ELSE [r |-> and_then_map_err(parse_fen_string(SubSeq(parts, 3, 8))),
                moves_index |-> 8])
    ELSE [r |-> Err("The string is not a valid position command"), moves_index |-> 0]

parse_uci_position_command(position_str, debug_assertions) ==
    CHOOSE result \in
      {IF Len(parts) \in {0, 1} \/ parts[1] # KW_position
       THEN Err("The string is not a valid position command")
       ELSE CHOOSE r \in
              {IF ~start.r.ok THEN start.r
               ELSE IF Len(parts) = start.moves_index THEN start.r
               ELSE IF parts[start.moves_index + 1] # KW_moves
               THEN Err("The string is not a valid position command")
               ELSE IF Len(parts) = start.moves_index + 1 THEN start.r
               ELSE position_moves_loop(start.r.board, parts, start.moves_index + 2,
                                        Len(parts), debug_assertions) :
                 start \in {position_start(parts)}} : TRUE :
         parts \in {position_str}} : TRUE

\* ------------------------------------------------------------------------
\* The UCI front end (engine-bin main.rs) and the engine worker
\* (messaging.rs): command lines read from stdin, the command and event
\* channels, the worker loop and the search thread a Go spawns.
\* ------------------------------------------------------------------------
\* position lines fed on stdin
\* "position startpos moves e2e4"
CMD_startpos_e2e4 ==
    << <<"p", "o", "s", "i", "t", "i", "o", "n">>, <<"s", "t", "a", "r", "t", "p", "o", "s">>, <<"m", "o", "v", "e", "s">>, <<"e", "2", "e", "4">> >>
\* "position fen 7k/8/8/8/8/8/8/K7 w - - 0 1"
CMD_two_kings ==
    << <<"p", "o", "s", "i", "t", "i", "o", "n">>, <<"f", "e", "n">>, <<"7", "k", "/", "8", "/", "8", "/", "8", "/", "8", "/", "8", "/", "8", "/", "K", "7">>, <<"w">>, <<"-">>, <<"-">>, <<"0">>, <<"1">> >>
\* "position fen 7k/6Q1/6K1/8/8/8/8/8 b - - 0 1"
CMD_checkmate ==
    << <<"p", "o", "s", "i", "t", "i", "o", "n">>, <<"f", "e", "n">>, <<"7", "k", "/", "6", "Q", "1", "/", "6", "K", "1", "/", "8", "/", "8", "/", "8", "/", "8", "/", "8">>, <<"b">>, <<"-">>, <<"-">>, <<"0">>, <<"1">> >>
\* "position fen 7k/5Q2/6K1/8/8/8/8/8 b - - 0 1"
CMD_stalemate ==
    << <<"p", "o", "s", "i", "t", "i", "o", "n">>, <<"f", "e", "n">>, <<"7", "k", "/", "5", "Q", "2", "/", "6", "K", "1", "/", "8", "/", "8", "/", "8", "/", "8", "/", "8">>, <<"b">>, <<"-">>, <<"-">>, <<"0">>, <<"1">> >>
\* "position startpos moves e4"
CMD_bad_move ==
    << <<"p", "o", "s", "i", "t", "i", "o", "n">>, <<"s", "t", "a", "r", "t", "p", "o", "s">>, <<"m", "o", "v", "e", "s">>, <<"e", "4">> >>
\* "position fen 8/8/8/8/8/8/8/9 w - - 0 1"
CMD_bad_fen ==
    << <<"p", "o", "s", "i", "t", "i", "o", "n">>, <<"f", "e", "n">>, <<"8", "/", "8", "/", "8", "/", "8", "/", "8", "/", "8", "/", "8", "/", "9">>, <<"w">>, <<"-">>, <<"-">>, <<"0">>, <<"1">> >>
\* "position foo"
CMD_not_position ==
    << <<"p", "o", "s", "i", "t", "i", "o", "n">>, <<"f", "o", "o">> >>

\* "position fen 8/8/8/8/8/8/P7/8 w - - 0 1 moves e4"
CMD_no_kings ==
    << <<"p", "o", "s", "i", "t", "i", "o", "n">>, <<"f", "e", "n">>, <<"8", "/", "8", "/", "8", "/", "8", "/", "8", "/", "8", "/", "P", "7", "/", "8">>, <<"w">>, <<"-">>, <<"-">>, <<"0">>, <<"1">>, <<"m", "o", "v", "e", "s">>, <<"e", "4">> >>

PositionLines ==
    {CMD_two_kings, CMD_checkmate, CMD_stalemate, CMD_startpos_e2e4,
     CMD_bad_move, CMD_bad_fen, CMD_not_position, CMD_no_kings}

\* number of command lines read from stdin in one run
MaxLines == 3

SENTINEL == <<"0", "0", "0", "0">>

VARIABLES
    main_pc,            \* main.rs: "loop", "isready_wait", "stop_wait", "join", "exit"
    lines_read,         \* lines taken from stdin so far
    ping_id,            \* main.rs ping_id
    cmd_q,              \* cmd_tx -> cmd_rx
    ev_q,               \* ev_tx -> event_rx
    stdout,             \* kinds of the lines main printed
    worker_pc,          \* worker: "poll", "recv", "join", "stop_recv", "done", "panicked"
    cur_cmd,            \* command whose handler is blocked in a join / recv
    board,              \* the worker's board
    stop_token,         \* StopToken flag
    search_thread,      \* Option<JoinHandle>: 0 or a thread number
    search_result_rx,   \* Option<Receiver<String>>: 0 or a thread number
    threads,            \* every search thread spawned, in spawn order
    ev_log,             \* history: every event the worker sent
    handled,            \* history: every command the worker finished handling
    superseded,         \* history: searches cut short by NewGame / Position / Go
    pos,                \* a board driven directly through make_move / unmake_move
    pos_state,          \* "ok", or "panicked" once an unwrap / expect failed
    call,               \* the perft / search_bestmove call running on `pos`
    call_stack,         \* its recursion: one frame per call that has not returned
    killer_moves,       \* move_ordering.rs KILLER_MOVES
    history_moves       \* move_ordering.rs HISTORY_MOVES, the non-zero entries

vars ==
    <<main_pc, lines_read, ping_id, cmd_q, ev_q, stdout, worker_pc, cur_cmd, board,
      stop_token, search_thread, search_result_rx, threads, ev_log, handled,
      superseded, pos, pos_state, call, call_stack, killer_moves, history_moves>>

main_vars == <<main_pc, lines_read, ping_id, stdout>>
worker_vars ==
    <<worker_pc, cur_cmd, board, stop_token, search_thread, search_result_rx,
      ev_log, handled, superseded>>
call_vars == <<call, call_stack, killer_moves, history_moves>>
pos_vars == <<pos, pos_state, call_vars>>

\* WorkerCmd / WorkerEvent values; n numbers the commands in the order sent
Cmd(type, id, text, n) == [type |-> type, id |-> id, text |-> text, n |-> n]
NoCmd == Cmd("None", 0, <<>>, 0)
BestMoveEv(mv) == [type |-> "BestMove", mv |-> mv, id |-> 0]
PongEv(id) == [type |-> "Pong", mv |-> <<>>, id |-> id]

\* log entry of an event: go is the search whose result it carries (0: none),
\* cmd the number of the command whose handler sent it (0: poll_search_result)
LogOf(e, go, n) ==
    [type |-> e.type, id |-> e.id, sentinel |-> (e.type = "BestMove" /\ e.mv = SENTINEL),
     go |-> go, cmd |-> n]
LogAll(events, go, n) == [i \in 1..Len(events) |-> LogOf(events[i], go, n)]

Handled(cmd, go, failed) ==
    [type |-> cmd.type, id |-> cmd.id, n |-> cmd.n, go |-> go, failed |-> failed]

NewThread(b) ==
    [state |-> "running", board |-> b, chan |-> <<>>, rx_alive |-> TRUE,
     joined |-> FALSE, moves_count |-> 0 - 1]

Running == {t \in DOMAIN threads : threads[t].state = "running"}

WorkerDead == worker_pc \in {"done", "panicked"}

InitWorker ==
    /\ main_pc = "loop"
    /\ lines_read = 0
    /\ ping_id = 1
    /\ cmd_q = <<>>
    /\ ev_q = <<>>
    /\ stdout = <<>>
    /\ worker_pc = "poll"
    /\ cur_cmd = NoCmd
    /\ board = get_start_position
    /\ stop_token = FALSE
    /\ search_thread = 0
    /\ search_result_rx = 0
    /\ threads = <<>>
    /\ ev_log = <<>>
    /\ handled = <<>>
    /\ superseded = {}

\* no perft or search_bestmove call is running; the statics of
\* move_ordering.rs hold their initial values
NoCall == [fn |-> "None"]

InitNoCall ==
    /\ call = NoCall
    /\ call_stack = <<>>
    /\ killer_moves = {}
    /\ history_moves = {}

Init ==
    /\ InitWorker
    /\ InitNoCall
    /\ pos = BoardDefault
    /\ pos_state = "ok"

\* ---------------- main.rs ----------------
\* cmd_tx.send(..).ok(): the command is queued unless the worker is gone
Send(cmd) ==
    cmd_q' = IF WorkerDead THEN cmd_q ELSE Append(cmd_q, cmd)

CanReadLine == main_pc = "loop" /\ lines_read < MaxLines

\* poll_engine_worker_events: one try_recv of the drain loop
MainPollEvent ==
    /\ main_pc = "loop"
    /\ ev_q # <<>>
    /\ ev_q' = Tail(ev_q)
    /\ stdout' = IF Head(ev_q).type = "BestMove" THEN Append(stdout, "bestmove") ELSE stdout
    /\ UNCHANGED <<main_pc, lines_read, ping_id, cmd_q, threads>>
    /\ UNCHANGED worker_vars
    /\ UNCHANGED pos_vars

\* "isready": Ok(WorkerEvent::Pong(x)) if x == id
\* (variant: the wait ends on the first event of any kind)
IsReadyAnyEvent(ev, id) == ev.type \in {"Pong", "BestMove"}
IsReadyDone(ev, id) == ev.type = "Pong" /\ ev.id = id

MainIsReady ==
    /\ CanReadLine
    /\ lines_read' = lines_read + 1
    /\ ping_id' = ping_id + 1
    /\ Send(Cmd("Ping", ping_id', <<>>, lines_read'))
    /\ main_pc' = "isready_wait"
    /\ UNCHANGED <<ev_q, stdout, threads>>
    /\ UNCHANGED worker_vars
    /\ UNCHANGED pos_vars

MainIsReadyRecv ==
    /\ main_pc = "isready_wait"
    /\ ev_q # <<>>
    /\ ev_q' = Tail(ev_q)
    /\ IF IsReadyDone(Head(ev_q), ping_id)
       THEN /\ stdout' = Append(stdout, "readyok")
            /\ main_pc' = "loop"
       ELSE /\ stdout' = IF Head(ev_q).type = "BestMove"
                         THEN Append(stdout, "bestmove") ELSE stdout
            /\ main_pc' = main_pc
    /\ UNCHANGED <<lines_read, ping_id, cmd_q, threads>>
    /\ UNCHANGED worker_vars
    /\ UNCHANGED pos_vars

MainSendLine(type, text) ==
    /\ CanReadLine
    /\ lines_read' = lines_read + 1
    /\ Send(Cmd(type, 0, text, lines_read'))
    /\ UNCHANGED <<ping_id, ev_q, stdout, threads>>
    /\ UNCHANGED worker_vars
    /\ UNCHANGED pos_vars

MainUciNewGame == MainSendLine("UciNewGame", <<>>) /\ main_pc' = main_pc

MainPosition == \E line \in PositionLines : MainSendLine("Position", line) /\ main_pc' = main_pc

MainGo == MainSendLine("Go", <<>>) /\ main_pc' = main_pc

MainStop == MainSendLine("Stop", <<>>) /\ main_pc' = "stop_wait"

MainStopRecv ==
    /\ main_pc = "stop_wait"
    /\ ev_q # <<>>
    /\ ev_q' = Tail(ev_q)
    /\ IF Head(ev_q).type = "BestMove"
       THEN /\ stdout' = Append(stdout, "bestmove")
            /\ main_pc' = "loop"
       ELSE UNCHANGED <<stdout, main_pc>>
    /\ UNCHANGED <<lines_read, ping_id, cmd_q, threads>>
    /\ UNCHANGED worker_vars
    /\ UNCHANGED pos_vars

\* event_rx.recv / recv_timeout with the worker gone and nothing queued:
\* Err(Disconnected) => return
MainDisconnected ==
    /\ main_pc \in {"isready_wait", "stop_wait"}
    /\ ev_q = <<>>
    /\ WorkerDead
    /\ main_pc' = "exit"
    /\ UNCHANGED <<lines_read, ping_id, stdout, cmd_q, ev_q, threads>>
    /\ UNCHANGED worker_vars
    /\ UNCHANGED pos_vars

MainQuit == MainSendLine("Quit", <<>>) /\ main_pc' = "join"

\* engine_worker_handler.join.join()
MainJoin ==
    /\ main_pc = "join"
    /\ WorkerDead
    /\ main_pc' = "exit"
    /\ UNCHANGED <<lines_read, ping_id, stdout, cmd_q, ev_q, threads>>
    /\ UNCHANGED worker_vars
    /\ UNCHANGED pos_vars

\* ---------------- messaging.rs: the search thread ----------------
\* the closure of thread::spawn in the Go handler: the legal moves of the cloned
\* board, a uniformly drawn index into them (random_range panics on an empty
\* range), the move's UCI text sent on res_tx
SearchThreadRun(t) ==
    /\ t \in Running
    /\ \E th \in {threads[t]} :
       \E moves \in {IF generate_legal_moves_aborts(th.board, th.board.game_state.side_to_move)
                     THEN <<>>
                     ELSE generate_legal_moves_to_vec(
                              th.board, th.board.game_state.side_to_move).moves} :
       \E panics \in IF moves = <<>> THEN {TRUE}
                     ELSE IF reads_missing_king(th.board, th.board.game_state.side_to_move)
                     THEN BOOLEAN
                     ELSE {FALSE} :
          IF panics
          THEN threads' = [threads EXCEPT ![t].state = "panicked",
                                          ![t].board = BoardDefault,
                                          ![t].moves_count = Len(moves)]
          ELSE \E rnd_mv_index \in 1..Len(moves) :
                  threads' = [threads EXCEPT
                      ![t].state = "finished",
                      ![t].board = BoardDefault,
                      ![t].moves_count = Len(moves),
                      ![t].chan = IF th.rx_alive
                                  THEN <<serialize_move_to_uci_str(
                                           moves[rnd_mv_index],
                                           th.board.game_state.side_to_move)>>
                                  ELSE <<>>]
    /\ UNCHANGED <<cmd_q, ev_q>>
    /\ UNCHANGED main_vars
    /\ UNCHANGED worker_vars
    /\ UNCHANGED pos_vars

SearchThread == \E t \in DOMAIN threads : SearchThreadRun(t)

\* ---------------- searching.rs: StopToken ----------------
request_stop(flag) == TRUE
reset(flag) == FALSE

\* ---------------- messaging.rs: the worker ----------------
\* JoinHandle::join returns once the thread has ended
\* (variant: the handle is dropped without waiting for the thread)
JoinNoWait(thread_state) == TRUE
JoinReturns(thread_state) == thread_state # "running"

MarkJoined(ths, t) == IF t = 0 THEN ths ELSE [ths EXCEPT ![t].joined = TRUE]

\* dropping a Receiver: later sends fail, what it held is gone
DropRx(ths, r) == IF r = 0 THEN ths ELSE [ths EXCEPT ![r].rx_alive = FALSE, ![r].chan = <<>>]

Emit(events, go, n) ==
    /\ ev_q' = ev_q \o events
    /\ ev_log' = ev_log \o LogAll(events, go, n)

\* poll_search_result, then on to cmd_rx.recv_timeout
WorkerPoll ==
    /\ worker_pc = "poll"
    /\ worker_pc' = "recv"
    /\ IF search_result_rx = 0
       THEN UNCHANGED <<ev_q, ev_log, search_thread, search_result_rx, threads>>
       ELSE LET th == threads[search_result_rx]
            IN IF th.chan # <<>>
               THEN /\ Emit(<<BestMoveEv(Head(th.chan))>>, search_result_rx, 0)
                    /\ search_thread' = 0
                    /\ search_result_rx' = 0
                    /\ threads' = DropRx(MarkJoined(threads, search_thread), search_result_rx)
               ELSE IF th.state = "running"
               THEN UNCHANGED <<ev_q, ev_log, search_thread, search_result_rx, threads>>
               ELSE /\ search_thread' = 0
                    /\ search_result_rx' = 0
                    /\ threads' = DropRx(MarkJoined(threads, search_thread), search_result_rx)
                    /\ UNCHANGED <<ev_q, ev_log>>
    /\ UNCHANGED <<cmd_q, cur_cmd, board, stop_token, handled, superseded>>
    /\ UNCHANGED main_vars
    /\ UNCHANGED pos_vars

\* cmd_rx.recv_timeout(cmd_timeout) => Err(Timeout) => continue
WorkerTimeout ==
    /\ worker_pc = "recv"
    /\ cmd_q = <<>>
    /\ worker_pc' = "poll"
    /\ UNCHANGED <<cmd_q, ev_q, threads, cur_cmd, board, stop_token, search_thread,
                   search_result_rx, ev_log, handled, superseded>>
    /\ UNCHANGED main_vars
    /\ UNCHANGED pos_vars

Receives(type) == worker_pc = "recv" /\ cmd_q # <<>> /\ Head(cmd_q).type = type

\* WorkerCmd::Ping
WorkerPing ==
    /\ Receives("Ping")
    /\ cmd_q' = Tail(cmd_q)
    /\ Emit(<<PongEv(Head(cmd_q).id)>>, 0, Head(cmd_q).n)
    /\ handled' = Append(handled, Handled(Head(cmd_q), search_thread, FALSE))
    /\ worker_pc' = "poll"
    /\ UNCHANGED <<threads, cur_cmd, board, stop_token, search_thread, search_result_rx,
                   superseded>>
    /\ UNCHANGED main_vars
    /\ UNCHANGED pos_vars

\* stop_search with a search thread present: search_result_rx.take()
\* (variant: the receiver is left in place)
stop_search_keeps_rx(rx) == rx
stop_search_rx(rx) == 0

\* stop_search with a search thread present, up to the join: request_stop (after
\* the Go handler's reset), the receiver taken, waited on for 50 ms and dropped
WorkerStopSearchBegin ==
    /\ worker_pc = "recv"
    /\ cmd_q # <<>>
    /\ Head(cmd_q).type \in {"UciNewGame", "Position", "Go", "Quit"}
    /\ search_thread # 0
    /\ cmd_q' = Tail(cmd_q)
    /\ cur_cmd' = Head(cmd_q)
    /\ stop_token' = request_stop(IF Head(cmd_q).type = "Go" THEN reset(stop_token)
                                  ELSE stop_token)
    /\ search_result_rx' = stop_search_rx(search_result_rx)
    /\ threads' = IF search_result_rx' = 0 THEN DropRx(threads, search_result_rx) ELSE threads
    /\ superseded' = IF Head(cmd_q).type = "Quit" THEN superseded
                     ELSE superseded \cup {search_thread}
    /\ worker_pc' = "join"
    /\ UNCHANGED <<ev_q, board, search_thread, ev_log, handled>>
    /\ UNCHANGED main_vars
    /\ UNCHANGED pos_vars

\* the handler of a `type` command is past stop_search: either no search thread
\* was there (the command is received in this step), or the join has returned
PastStopSearch(type) ==
    IF worker_pc = "recv" THEN Receives(type) /\ search_thread = 0
    ELSE /\ worker_pc = "join"
         /\ cur_cmd.type = type
         /\ JoinReturns(threads[search_thread].state)

TheCmd == IF worker_pc = "recv" THEN Head(cmd_q) ELSE cur_cmd
Joined == IF worker_pc = "recv" THEN 0 ELSE search_thread
ThreadsPastStopSearch ==
    IF worker_pc = "recv" THEN DropRx(threads, search_result_rx)
    ELSE MarkJoined(threads, search_thread)
RxPastStopSearch == IF worker_pc = "recv" THEN 0 ELSE search_result_rx

\* WorkerCmd::UciNewGame
WorkerUciNewGame ==
    /\ PastStopSearch("UciNewGame")
    /\ cmd_q' = IF worker_pc = "recv" THEN Tail(cmd_q) ELSE cmd_q
    /\ cur_cmd' = NoCmd
    /\ threads' = ThreadsPastStopSearch
    /\ search_thread' = 0
    /\ search_result_rx' = RxPastStopSearch
    /\ board' = get_start_position
    /\ handled' = Append(handled, Handled(TheCmd, Joined, FALSE))
    /\ worker_pc' = "poll"
    /\ UNCHANGED <<ev_q, ev_log, stop_token, superseded>>
    /\ UNCHANGED main_vars
    /\ UNCHANGED pos_vars

\* variant: a failed parse resets the board
handle_position_resets(b, text, debug_assertions) ==
    CHOOSE h \in
      {[abort |-> r \in {Abort, DebugAbort}, debug_only |-> r = DebugAbort,
        ok |-> r.ok, board |-> IF r.ok THEN r.board ELSE BoardDefault,
        events |-> IF r.ok THEN <<>> ELSE <<BestMoveEv(SENTINEL)>>] :
         r \in {parse_uci_position_command(text, debug_assertions)}} : TRUE

\* WorkerCmd::Position after stop_search: the board replaced on Ok, one
\* BestMove("0000") sent on Err; an unwrap failing inside the parse ends the worker
handle_position(b, text, debug_assertions) ==
    CHOOSE h \in
      {[abort |-> r \in {Abort, DebugAbort}, debug_only |-> r = DebugAbort,
        ok |-> r.ok, board |-> IF r.ok THEN r.board ELSE b,
        events |-> IF r.ok THEN <<>> ELSE <<BestMoveEv(SENTINEL)>>] :
         r \in {parse_uci_position_command(text, debug_assertions)}} : TRUE

\* the outcomes of the handler over both builds: the two differ only where the
\* build with debug assertions aborts
position_outcomes(b, text) ==
    CHOOSE outcomes \in
      {IF checked.debug_only THEN {checked, handle_position(b, text, FALSE)}
       ELSE {checked} :
         checked \in {handle_position(b, text, TRUE)}} : TRUE

WorkerPosition ==
    /\ PastStopSearch("Position")
    /\ cmd_q' = IF worker_pc = "recv" THEN Tail(cmd_q) ELSE cmd_q
    /\ cur_cmd' = NoCmd
    /\ threads' = ThreadsPastStopSearch
    /\ search_thread' = 0
    /\ search_result_rx' = RxPastStopSearch
    /\ \E h \in position_outcomes(board, TheCmd.text) :
          IF h.abort
          THEN /\ worker_pc' = "panicked"
               /\ UNCHANGED <<board, ev_q, ev_log, handled>>
          ELSE /\ board' = h.board
               /\ Emit(h.events, 0, TheCmd.n)
               /\ handled' = Append(handled, Handled(TheCmd, Joined, ~h.ok))
               /\ worker_pc' = "poll"
    /\ UNCHANGED <<stop_token, superseded>>
    /\ UNCHANGED main_vars
    /\ UNCHANGED pos_vars

\* WorkerCmd::Go: stop_token.reset(), stop_search, then the search thread is
\* spawned on a clone of the board
WorkerGo ==
    /\ PastStopSearch("Go")
    /\ cmd_q' = IF worker_pc = "recv" THEN Tail(cmd_q) ELSE cmd_q
    /\ cur_cmd' = NoCmd
    /\ stop_token' = IF worker_pc = "recv" THEN reset(stop_token) ELSE stop_token
    /\ threads' = Append(DropRx(ThreadsPastStopSearch, RxPastStopSearch), NewThread(board))
    /\ search_thread' = Len(threads) + 1
    /\ search_result_rx' = Len(threads) + 1
    /\ handled' = Append(handled, Handled(TheCmd, Joined, FALSE))
    /\ worker_pc' = "poll"
    /\ UNCHANGED <<ev_q, ev_log, board, superseded>>
    /\ UNCHANGED main_vars
    /\ UNCHANGED pos_vars

\* WorkerCmd::Stop with no search thread
\* (variant: nothing is sent)
stop_without_search_silent == <<>>
stop_without_search == <<BestMoveEv(SENTINEL)>>

WorkerStopIdle ==
    /\ Receives("Stop")
    /\ search_thread = 0
    /\ cmd_q' = Tail(cmd_q)
    /\ Emit(stop_without_search, 0, Head(cmd_q).n)
    /\ handled' = Append(handled, Handled(Head(cmd_q), 0, FALSE))
    /\ worker_pc' = "poll"
    /\ UNCHANGED <<threads, cur_cmd, board, stop_token, search_thread, search_result_rx,
                   superseded>>
    /\ UNCHANGED main_vars
    /\ UNCHANGED pos_vars

\* WorkerCmd::Stop with a search thread: request_stop, then rx.recv() blocks
WorkerStopBegin ==
    /\ Receives("Stop")
    /\ search_thread # 0
    /\ cmd_q' = Tail(cmd_q)
    /\ cur_cmd' = Head(cmd_q)
    /\ stop_token' = request_stop(stop_token)
    /\ worker_pc' = "stop_recv"
    /\ UNCHANGED <<ev_q, threads, board, search_thread, search_result_rx, ev_log, handled,
                   superseded>>
    /\ UNCHANGED main_vars
    /\ UNCHANGED pos_vars

\* the result received (or the sender gone: "0000"), the thread joined, the
\* BestMove sent
stop_reply(rx, ths) ==
    IF rx # 0 /\ ths[rx].chan # <<>> THEN Head(ths[rx].chan) ELSE SENTINEL

WorkerStopEnd ==
    /\ worker_pc = "stop_recv"
    /\ search_result_rx # 0 => threads[search_result_rx].state # "running"
    /\ JoinReturns(threads[search_thread].state)
    /\ Emit(<<BestMoveEv(stop_reply(search_result_rx, threads))>>, search_thread, cur_cmd.n)
    /\ threads' = DropRx(MarkJoined(threads, search_thread), search_result_rx)
    /\ search_thread' = 0
    /\ search_result_rx' = 0
    /\ handled' = Append(handled, Handled(cur_cmd, search_thread, FALSE))
    /\ cur_cmd' = NoCmd
    /\ worker_pc' = "poll"
    /\ UNCHANGED <<cmd_q, board, stop_token, superseded>>
    /\ UNCHANGED main_vars
    /\ UNCHANGED pos_vars

\* WorkerCmd::Quit: stop_search, break
WorkerQuit ==
    /\ PastStopSearch("Quit")
    /\ cmd_q' = IF worker_pc = "recv" THEN Tail(cmd_q) ELSE cmd_q
    /\ cur_cmd' = NoCmd
    /\ threads' = ThreadsPastStopSearch
    /\ search_thread' = 0
    /\ search_result_rx' = RxPastStopSearch
    /\ handled' = Append(handled, Handled(TheCmd, Joined, FALSE))
    /\ worker_pc' = "done"
    /\ UNCHANGED <<ev_q, ev_log, board, stop_token, superseded>>
    /\ UNCHANGED main_vars
    /\ UNCHANGED pos_vars

Next ==
    \/ MainPollEvent
    \/ MainIsReady
    \/ MainIsReadyRecv
    \/ MainUciNewGame
    \/ MainPosition
    \/ MainGo
    \/ MainStop
    \/ MainStopRecv
    \/ MainDisconnected
    \/ MainQuit
    \/ MainJoin
    \/ SearchThread
    \/ WorkerPoll
    \/ WorkerTimeout
    \/ WorkerPing
    \/ WorkerStopSearchBegin
    \/ WorkerUciNewGame
    \/ WorkerPosition
    \/ WorkerGo
    \/ WorkerStopIdle
    \/ WorkerStopBegin
    \/ WorkerStopEnd
    \/ WorkerQuit

Spec == Init /\ [][Next]_vars


\* ------------------------------------------------------------------------
\* Properties of the worker protocol
\* ------------------------------------------------------------------------
BestMovesFor(t) ==
    {i \in DOMAIN ev_log : ev_log[i].type = "BestMove" /\ ev_log[i].go = t}

CutByQuit(t) ==
    \E k \in DOMAIN handled : handled[k].type = "Quit" /\ handled[k].go = t

NewEvents == (Len(ev_log) + 1)..Len(ev_log')

LastHandled == handled'[Len(handled')]

\* C1: every Go the worker accepts yields exactly one BestMove for its search.
\* Stated on finished business, for searches that found legal moves: once the
\* search thread of a Go has been joined (by anything but Quit) no further event
\* can come from it, so exactly one BestMove of that search must be in the log.
C1_OneBestMovePerGo ==
    \A t \in DOMAIN threads :
        (threads[t].joined /\ threads[t].moves_count > 0 /\ ~CutByQuit(t)) =>
            Cardinality(BestMovesFor(t)) = 1

\* C2: after a UciNewGame, Position or Go has begun to replace a search that
\* was in flight, no step of the worker emits a BestMove carrying that search's
\* result.
C2_NoSupersededBestMove ==
    [][\A i \in NewEvents :
          ev_log'[i].type = "BestMove" => ev_log'[i].go \notin superseded']_vars

\* a superseded search had found moves and was joined, and a later search's
\* BestMove has been emitted since
C2_Witness ==
    \E t \in superseded :
        /\ threads[t].joined
        /\ threads[t].moves_count > 0
        /\ \E i \in DOMAIN ev_log : ev_log[i].type = "BestMove" /\ ev_log[i].go > t

\* C3: at most one search thread runs at any time, and a step that changes the
\* worker's board or spawns a search thread is taken only when no search thread
\* is running; when a search was in flight at the command's arrival the stop
\* flag has been set and the thread is joined by that step.
C3_OneSearchThread ==
    [][/\ Cardinality(Running') <= 1
       /\ (board' # board \/ Len(threads') > Len(threads)) =>
             /\ Running = {}
             /\ worker_pc = "join" => (stop_token /\ threads'[search_thread].joined)]_vars

\* a Go that arrived with a search in flight has joined it and its own search
\* thread is running
C3_Witness ==
    /\ Running # {}
    /\ \E k \in DOMAIN handled : handled[k].type = "Go" /\ handled[k].go # 0
    /\ \E t \in superseded : threads[t].joined

\* C4: whenever the worker spawns a search thread the stop flag is unset.
C4_FlagUnsetAtSpawn ==
    [][Len(threads') > Len(threads) => stop_token' = FALSE]_vars

\* C5: the step that finishes a Stop sends exactly one BestMove: the move the
\* search thread produced when a search thread is present (the flag set, the
\* thread ended and joined), "0000" when there is none or it produced nothing;
\* and every Stop handled has exactly one event in the log.
C5_StopOneBestMove ==
    [][/\ (Len(handled') > Len(handled) /\ LastHandled.type = "Stop") =>
             /\ (LastHandled.go = 0) = (search_thread = 0)
             /\ Len(ev_log') = Len(ev_log) + 1
             /\ ev_q' = Append(ev_q,
                    BestMoveEv(IF LastHandled.go # 0 /\ threads[LastHandled.go].chan # <<>>
                               THEN Head(threads[LastHandled.go].chan)
                               ELSE SENTINEL))
             /\ LastHandled.go # 0 =>
                    /\ stop_token
                    /\ threads[LastHandled.go].state # "running"
                    /\ threads'[LastHandled.go].joined
       /\ \A k \in DOMAIN handled' :
             handled'[k].type = "Stop" =>
                Cardinality({i \in DOMAIN ev_log' :
                               ev_log'[i].cmd = handled'[k].n
                               /\ ev_log'[i].type = "BestMove"}) = 1
       /\ (worker_pc = "recv" /\ cmd_q # <<>> /\ Head(cmd_q).type = "Stop"
           /\ cmd_q' = Tail(cmd_q)) =>
             \/ Len(handled') > Len(handled) /\ LastHandled.n = Head(cmd_q).n
             \/ worker_pc' = "stop_recv" /\ cur_cmd' = Head(cmd_q)]_vars

\* one Stop answered with a search's move and one answered with "0000" while
\* no search thread was present
C5_Witness ==
    /\ \E k \in DOMAIN handled :
          /\ handled[k].type = "Stop"
          /\ handled[k].go # 0
          /\ \E i \in DOMAIN ev_log : ev_log[i].cmd = handled[k].n /\ ~ev_log[i].sentinel
    /\ \E k \in DOMAIN handled :
          /\ handled[k].type = "Stop"
          /\ handled[k].go = 0
          /\ \E i \in DOMAIN ev_log : ev_log[i].cmd = handled[k].n /\ ev_log[i].sentinel

\* C6: a Pong(id) is sent only by the step that handles Ping(id), when every
\* command sent before that Ping has been handled, in the order sent; each Ping
\* handled has exactly one Pong; and readyok is printed only when every command
\* sent so far has been handled.
C6_PongAfterPriorCommands ==
    [][/\ \A i \in NewEvents :
             ev_log'[i].type = "Pong" =>
                /\ Receives("Ping")
                /\ Head(cmd_q).id = ev_log'[i].id
                /\ Len(handled) = Head(cmd_q).n - 1
                /\ \A m \in DOMAIN handled : handled[m].n = m
                /\ Len(handled') = Head(cmd_q).n
       /\ \A k \in DOMAIN handled' :
             handled'[k].type = "Ping" =>
                Cardinality({i \in DOMAIN ev_log' :
                               ev_log'[i].type = "Pong"
                               /\ ev_log'[i].id = handled'[k].id}) = 1
       /\ (Len(stdout') > Len(stdout) /\ stdout'[Len(stdout')] = "readyok") =>
             /\ Len(handled) = lines_read
             /\ cmd_q = <<>>
             /\ cur_cmd = NoCmd]_vars

\* readyok has been printed for an isready sent after two other commands
C6_Witness ==
    /\ \E i \in DOMAIN stdout : stdout[i] = "readyok"
    /\ \E k \in DOMAIN handled : handled[k].type = "Ping" /\ k >= 3
    /\ \E k \in DOMAIN handled : handled[k].type = "Go"

\* C7: a search on a position without legal moves does not abort, and once its
\* thread is joined (by anything but a superseding command or Quit) the
\* BestMove "0000" has been emitted for it.
C7_NoLegalMovesSentinel ==
    \A t \in DOMAIN threads :
        threads[t].moves_count = 0 =>
            /\ threads[t].state # "panicked"
            /\ (threads[t].joined /\ t \notin superseded /\ ~CutByQuit(t)) =>
                   \E i \in BestMovesFor(t) : ev_log[i].sentinel

\* position lines the parser does not accept
FailingPositionLines == {CMD_bad_move, CMD_bad_fen, CMD_not_position, CMD_no_kings}

\* C8: the step that handles a Position line that cannot be parsed sends exactly
\* one BestMove("0000") and leaves the worker in its loop.
C8_PositionErrorSentinel ==
    [][(/\ PastStopSearch("Position")
        /\ TheCmd.text \in FailingPositionLines
        /\ (worker_pc' = "panicked" \/ Len(handled') > Len(handled))) =>
          /\ worker_pc' = "poll"
          /\ ev_q' = Append(ev_q, BestMoveEv(SENTINEL))
          /\ Len(ev_log') = Len(ev_log) + 1]_vars


\* ------------------------------------------------------------------------
\* A board driven directly through make_move / unmake_move
\* ------------------------------------------------------------------------
\* "4k3/8/8/4P3/8/8/8/4K3 w - d6 0 1": an en-passant square with no pawn in
\* front of it
FEN_en_passant_d6 ==
    << <<"4", "k", "3", "/", "8", "/", "8", "/", "4", "P", "3", "/", "8", "/", "8", "/", "8", "/", "4", "K", "3">>, <<"w">>, <<"-">>, <<"d", "6">>, <<"0">>, <<"1">> >>
\* "r3k2r/8/8/8/8/8/8/R3K2R w KQkq - 0 1"
FEN_castling ==
    << <<"r", "3", "k", "2", "r", "/", "8", "/", "8", "/", "8", "/", "8", "/", "8", "/", "8", "/", "R", "3", "K", "2", "R">>, <<"w">>, <<"K", "Q", "k", "q">>, <<"-">>, <<"0">>, <<"1">> >>
\* "4k3/P7/8/8/8/8/8/4K3 w - - 0 1"
FEN_promotion ==
    << <<"4", "k", "3", "/", "P", "7", "/", "8", "/", "8", "/", "8", "/", "8", "/", "8", "/", "4", "K", "3">>, <<"w">>, <<"-">>, <<"-">>, <<"0">>, <<"1">> >>

\* "4k3/8/8/3nP3/8/8/8/4K3 w - d6 0 1": the square behind the en-passant
\* square holds a knight
FEN_en_passant_knight ==
    << <<"4", "k", "3", "/", "8", "/", "8", "/", "3", "n", "P", "3", "/", "8", "/", "8", "/", "8", "/", "4", "K", "3">>, <<"w">>, <<"-">>, <<"d", "6">>, <<"0">>, <<"1">> >>
\* "4k3/8/8/8/8/8/8/K3K3 w - - 0 1"
FEN_two_white_kings ==
    << <<"4", "k", "3", "/", "8", "/", "8", "/", "8", "/", "8", "/", "8", "/", "8", "/", "K", "3", "K", "3">>, <<"w">>, <<"-">>, <<"-">>, <<"0">>, <<"1">> >>
\* "3rk3/8/8/4P3/4K3/8/8/8 w - d6 0 1"
FEN_en_passant_rook_file ==
    << <<"3", "r", "k", "3", "/", "8", "/", "8", "/", "4", "P", "3", "/", "4", "K", "3", "/", "8", "/", "8", "/", "8">>, <<"w">>, <<"-">>, <<"d", "6">>, <<"0">>, <<"1">> >>
\* "4k3/8/8/8/8/8/8/4K3 w - - 100 1"
FEN_clock_100 ==
    << <<"4", "k", "3", "/", "8", "/", "8", "/", "8", "/", "8", "/", "8", "/", "8", "/", "4", "K", "3">>, <<"w">>, <<"-">>, <<"-">>, <<"1", "0", "0">>, <<"1">> >>
\* "4k3/8/8/8/8/8/8/K3R3 w K - 0 1": a castling right with a rook on e1
FEN_castling_rook_e1 ==
    << <<"4", "k", "3", "/", "8", "/", "8", "/", "8", "/", "8", "/", "8", "/", "8", "/", "K", "3", "R", "3">>, <<"w">>, <<"K">>, <<"-">>, <<"0">>, <<"1">> >>

BoardFens ==
    {FEN_en_passant_d6, FEN_castling, FEN_promotion, START_POS_FEN,
     FEN_en_passant_knight, FEN_two_white_kings, FEN_en_passant_rook_file,
     FEN_clock_100, FEN_castling_rook_e1}

\* moves made on top of the decoded position
MaxPlies == 2

engine_vars ==
    <<main_pc, lines_read, ping_id, cmd_q, ev_q, stdout, worker_pc, cur_cmd, board,
      stop_token, search_thread, search_result_rx, threads, ev_log, handled, superseded>>

not_pos_vars == <<engine_vars, call_vars>>

InitBoard ==
    /\ InitWorker
    /\ InitNoCall
    /\ pos \in {parse_fen_string(fen).board : fen \in BoardFens}
    /\ pos_state = "ok"

\* a legal move made as the position command's loop makes it: on the board the
\* legality filter leaves behind
BoardMake ==
    /\ Len(pos.history) < MaxPlies
    /\ \E gen \in {generate_legal_moves(pos, pos.game_state.side_to_move)} :
       \E i \in DOMAIN gen.moves : pos' = make_move(gen.board, gen.moves[i])
    /\ UNCHANGED pos_state
    /\ UNCHANGED not_pos_vars

BoardUnmake ==
    /\ ~history_pop_fails(pos)
    /\ pos' = unmake_move(pos)
    /\ UNCHANGED pos_state
    /\ UNCHANGED not_pos_vars

NextBoard ==
    \/ BoardMake
    \/ BoardUnmake

SpecBoard == InitBoard /\ [][NextBoard]_vars

\* C9: in every position decoded from a FEN or reached from one by make, every
\* legal move made and then unmade leaves the bitboards, the occupancies, the
\* game state and the history length as they were.
C9_MakeUnmakeRestores ==
    \A P \in {pos} :
    \A legal_moves \in {generate_legal_moves(P, P.game_state.side_to_move).moves} :
    \A i \in DOMAIN legal_moves :
        BoardEq(unmake_move(make_move(P, legal_moves[i])), P)

\* ------------------------------------------------------------------------
\* Position lines with long move lists
\* ------------------------------------------------------------------------
\* The n-th ply (from 0) of a game every move of which is legal: the king's
\* knights go out and back (g1h3 h3g1, g8h6 h6g8) and every 149th ply is a
\* pawn's single step, White's and Black's in turn, on the files a to g.
ShuffleBlock == 149
PawnFiles == <<"a", "b", "c", "d", "e", "f", "g">>

PawnStep(by_white, q) ==
    IF by_white
    THEN <<PawnFiles[(q % 7) + 1], IF q < 7 THEN "2" ELSE "3",
           PawnFiles[(q % 7) + 1], IF q < 7 THEN "3" ELSE "4">>
    ELSE <<PawnFiles[(q % 7) + 1], IF q < 7 THEN "7" ELSE "6",
           PawnFiles[(q % 7) + 1], IF q < 7 THEN "6" ELSE "5">>

KnightShuffle(by_white, out) ==
    IF by_white
    THEN (IF out THEN <<"g", "1", "h", "3">> ELSE <<"h", "3", "g", "1">>)
    ELSE (IF out THEN <<"g", "8", "h", "6">> ELSE <<"h", "6", "g", "8">>)

MoveToken(p) ==
    IF p % ShuffleBlock = ShuffleBlock - 1
    THEN PawnStep(p % 2 = 0, (p \div ShuffleBlock) \div 2)
    ELSE KnightShuffle(p % 2 = 0, ((p % ShuffleBlock) \div 2) % 2 = 0)

\* "position startpos moves <n legal moves>"
PositionStartposMoves(n) ==
    <<KW_position, KW_startpos>>
    \o (IF n = 0 THEN <<>> ELSE <<KW_moves>> \o [i \in 1..n |-> MoveToken(i - 1)])

\* lengths of the move lists fed: the short ones, the longest list the history
\* holds, and one more
MaxShortGame == 100
GameLengths == (0..MaxShortGame) \cup {MAX_MOVES_COUNT, MAX_MOVES_COUNT + 1}

\* position lines read in one run
MaxHistLines == 1

InitHistory ==
    /\ InitWorker
    /\ InitNoCall
    /\ pos = get_start_position
    /\ pos_state = "ok"

\* WorkerCmd::Position on the board `pos`, the whole token loop in one step
HistPosition ==
    /\ pos_state = "ok"
    /\ lines_read < MaxHistLines
    /\ lines_read' = lines_read + 1
    /\ \E n \in GameLengths :
       \E h \in position_outcomes(pos, PositionStartposMoves(n)) :
          IF h.abort
          THEN pos_state' = "worker_panicked" /\ pos' = BoardDefault
          ELSE pos_state' = pos_state /\ pos' = h.board
    /\ UNCHANGED <<main_pc, ping_id, cmd_q, ev_q, stdout, worker_pc, cur_cmd, board,
                   stop_token, search_thread, search_result_rx, threads, ev_log, handled,
                   superseded>>
    /\ UNCHANGED call_vars

\* WorkerCmd::Go on the board `pos`: the search thread's legality filter makes
\* the first pseudo-legal move on its clone
HistGo ==
    /\ pos_state = "ok"
    /\ IF generate_legal_moves_aborts(pos, pos.game_state.side_to_move)
       THEN pos_state' = "search_panicked" /\ pos' = BoardDefault
       ELSE UNCHANGED <<pos, pos_state>>
    /\ UNCHANGED not_pos_vars

\* WorkerCmd::UciNewGame on the board `pos`
HistUciNewGame ==
    /\ pos_state = "ok"
    /\ pos' = get_start_position
    /\ UNCHANGED pos_state
    /\ UNCHANGED not_pos_vars

NextHistory ==
    \/ HistPosition
    \/ HistGo
    \/ HistUciNewGame

SpecHistory == InitHistory /\ [][NextHistory]_vars

\* C10: no line of legal moves makes the worker or a search push onto a full
\* history stack.
C10_NoHistoryAbort == pos_state = "ok"

\* ------------------------------------------------------------------------
\* Board consistency over the decoded and played positions
\* ------------------------------------------------------------------------
PieceSet == {PieceAll[i] : i \in DOMAIN PieceAll}

SideUnion(b, side) == UNION {get_bb(b, side, piece) : piece \in PieceSet}

PairwiseDisjoint(b) ==
    \A s1 \in Sides, s2 \in Sides, p1 \in PieceSet, p2 \in PieceSet :
        (<<s1, p1>> # <<s2, p2>>) => get_bb(b, s1, p1) \cap get_bb(b, s2, p2) = {}

\* C11: in every position decoded from a FEN or reached from one by making
\* and unmaking generated legal moves, the twelve piece bitboards are pairwise
\* disjoint, each side's occupancy is the union of its six bitboards, the two
\* occupancies are disjoint and the global occupancy is their union.
C11_BitboardsConsistent ==
    /\ PairwiseDisjoint(pos)
    /\ \A side \in Sides : pos.side_occupancies[side] = SideUnion(pos, side)
    /\ pos.side_occupancies[White] \cap pos.side_occupancies[Black] = {}
    /\ pos.global_occupancy = pos.side_occupancies[White] \cup pos.side_occupancies[Black]

\* C12: in every position the engine can hold (decoded from an accepted FEN
\* or reached from one by generated legal moves) each side has exactly one king.
C12_OneKingPerSide ==
    \A side \in Sides : Cardinality(get_bb(pos, side, King)) = 1

\* the mover's king is not attacked once the move is made on board b
KingSafeAfter(b, mv, side) == ~is_in_check(make_move(b, mv), side)

KingSafeMoves(b, side) ==
    SelectSeq(generate_pseudo_legal_moves(b, side), LAMBDA mv : KingSafeAfter(b, mv, side))

\* C13: every move the legal-move generation returns for the side to move
\* leaves the mover's king unattacked once made, and the legal list is the
\* pseudo-legal list without the king-exposing moves, in the same order.
C13_LegalMovesKeepKingSafe ==
    \A side \in {pos.game_state.side_to_move} :
    \A gen \in {generate_legal_moves(pos, side)} :
        /\ \A i \in DOMAIN gen.moves : KingSafeAfter(pos, gen.moves[i], side)
        /\ gen.moves = KingSafeMoves(pos, side)

\* ------------------------------------------------------------------------
\* Game-state updates of make_move
\* ------------------------------------------------------------------------
\* a step that made a move: one more history entry, whose move is LastMove
IsMakeStep == Len(pos'.history) = Len(pos.history) + 1

LastMove(b) == b.history[Len(b.history)].mv

IsPawnTwoStep(mv) ==
    /\ mv.kind = "Normal"
    /\ mv.piece = Pawn
    /\ (mv.to - mv.from = 2 * BOARD_SIZE \/ mv.from - mv.to = 2 * BOARD_SIZE)

SkippedSquare(mv) == (mv.from + mv.to) \div 2

\* C14: after any make the en-passant square is set exactly when the move was
\* a pawn double push, and it is then the square the pawn skipped; when set it
\* lies on rank 6 with White to move and on rank 3 with Black to move.
C14_EnPassantSetByDoublePush ==
    [][IsMakeStep =>
         /\ (pos'.game_state.en_passant_square # NoneSq) <=> IsPawnTwoStep(LastMove(pos'))
         /\ IsPawnTwoStep(LastMove(pos')) =>
                pos'.game_state.en_passant_square = SkippedSquare(LastMove(pos'))
         /\ (pos'.game_state.en_passant_square # NoneSq) =>
                pos'.game_state.en_passant_square \div BOARD_SIZE =
                    (IF pos'.game_state.side_to_move = White THEN 5 ELSE 2)]_vars

\* a double push has just been made and left its en-passant square
C14_Witness ==
    /\ Len(pos.history) > 0
    /\ IsPawnTwoStep(LastMove(pos))
    /\ pos.game_state.en_passant_square = SkippedSquare(LastMove(pos))

SideRights(side) ==
    IF side = White THEN {WHITE_KINGSIDE, WHITE_QUEENSIDE}
    ELSE {BLACK_KINGSIDE, BLACK_QUEENSIDE}

\* the right that belongs to a rook of `side` on its home corner (a1, h1 for
\* White, a8, h8 for Black); empty for every other square
CornerRight(side, sq) ==
    IF side = White /\ sq = 0 THEN {WHITE_QUEENSIDE}
    ELSE IF side = White /\ sq = 7 THEN {WHITE_KINGSIDE}
    ELSE IF side = Black /\ sq = 56 THEN {BLACK_QUEENSIDE}
    ELSE IF side = Black /\ sq = 63 THEN {BLACK_KINGSIDE}
    ELSE {}

\* C15: along makes the castling rights never grow; a king move or a castle
\* removes both rights of the mover, a rook leaving a1/h1/a8/h8 removes the
\* mover's right of that corner, and capturing a rook on one of these squares
\* removes the opponent's right of that corner.
C15_CastlingRightsNeverGrow ==
    [][IsMakeStep =>
         /\ pos'.game_state.castling_state \subseteq pos.game_state.castling_state
         /\ (LastMove(pos').kind = "Castle" \/ LastMove(pos').piece = King) =>
                pos'.game_state.castling_state \cap SideRights(pos.game_state.side_to_move) = {}
         /\ (LastMove(pos').kind = "Normal" /\ LastMove(pos').piece = Rook) =>
                pos'.game_state.castling_state
                    \cap CornerRight(pos.game_state.side_to_move, LastMove(pos').from) = {}
         /\ (LastMove(pos').kind = "Normal" /\ LastMove(pos').captured = Rook) =>
                pos'.game_state.castling_state
                    \cap CornerRight(opposite(pos.game_state.side_to_move), LastMove(pos').to) = {}]_vars

\* the rook from a1 has just captured the rook on a8: both queen-side rights
\* are gone, both king-side rights are kept
C15_Witness ==
    /\ Len(pos.history) > 0
    /\ LastMove(pos).kind = "Normal"
    /\ LastMove(pos).piece = Rook
    /\ LastMove(pos).from = 0
    /\ LastMove(pos).to = 56
    /\ LastMove(pos).captured = Rook
    /\ pos.game_state.castling_state = {WHITE_KINGSIDE, BLACK_KINGSIDE}

\* C16: the half-move clock stays within 0..100 in every position decoded
\* from an accepted FEN or reached from one by making generated legal moves.
C16_HalfMoveClockInRange ==
    pos.game_state.half_move_clock \in 0..MAX_HALF_MOVES_COUNT

\* ------------------------------------------------------------------------
\* parse_uci_position_command on command lines built from a few start
\* positions and every sequence of up to MaxMoveTokens move tokens
\* ------------------------------------------------------------------------
MaxMoveTokens == 2
MaxPosLines == 1

\* squares the tokens are built from: a1 e1 e2 e4 e5 e7 / g1 d4 e4 e5 d6 a8
TokenFromSquares == {0, 4, 12, 28, 36, 52}

TokenToSquares == {6, 27, 28, 36, 43, 56}

MoveTokens ==
    {square_to_string(from) \o square_to_string(to) :
        from \in TokenFromSquares, to \in TokenToSquares}
    \cup {<<"e", "4">>, <<"a", "7", "a", "8", "q">>, <<"a", "7", "a", "8", "k">>}

PositionHeads ==
    {<<KW_position, KW_startpos>>}
    \cup {<<KW_position, KW_fen>> \o fen :
            fen \in {FEN_castling, FEN_promotion, FEN_en_passant_rook_file}}

TokenSeqs ==
    UNION {[1..n -> MoveTokens] : n \in 1..MaxMoveTokens}

PositionCommandLines ==
    PositionHeads
    \cup {head \o <<KW_moves>> : head \in PositionHeads}
    \cup {head \o <<KW_moves>> \o tokens : head \in PositionHeads, tokens \in TokenSeqs}

InitPosition ==
    /\ InitWorker
    /\ InitNoCall
    /\ pos = get_start_position
    /\ pos_state = "ok"

\* one position command decoded by parse_uci_position_command; the worker
\* replaces its board on Ok and keeps it on Err
PosCommand ==
    /\ lines_read < MaxPosLines
    /\ lines_read' = lines_read + 1
    /\ \E line \in PositionCommandLines :
       \E r \in {parse_uci_position_command(line, FALSE)} :
          /\ cur_cmd' = Cmd("Position", 0, line, lines_read + 1)
          /\ pos_state' = IF r.ok THEN "ok" ELSE "err"
          /\ pos' = IF r.ok THEN r.board ELSE pos
    /\ UNCHANGED <<main_pc, ping_id, cmd_q, ev_q, stdout, worker_pc, board,
                   stop_token, search_thread, search_result_rx, threads, ev_log, handled,
                   superseded>>
    /\ UNCHANGED call_vars

NextPosition == PosCommand

SpecPosition == InitPosition /\ [][NextPosition]_vars

\* the tokens after `moves` and the position before them
MovesIndex(line) == IF line[2] = KW_startpos THEN 2 ELSE 8

MoveTokensOf(line) == SubSeq(line, MovesIndex(line) + 2, Len(line))

HeadBoard(line) ==
    IF line[2] = KW_startpos THEN get_start_position
    ELSE parse_fen_string(SubSeq(line, 3, 8)).board

\* the king-safe pseudo-legal moves of b and the indices of those whose UCI
\* string is token
LegalMatch(b, token) ==
    CHOOSE match \in
      {[list |-> list,
        hits |-> {i \in DOMAIN list :
                    serialize_move_to_uci_str(list[i], b.game_state.side_to_move) = token}] :
         list \in {KingSafeMoves(b, b.game_state.side_to_move)}} : TRUE

\* every token is the UCI string of a legal move of the position the tokens
\* before it lead to
RECURSIVE AllTokensLegal(_, _, _)
AllTokensLegal(b, tokens, i) ==
    IF i > Len(tokens) THEN TRUE
    ELSE \E match \in {LegalMatch(b, tokens[i])} :
            /\ match.hits # {}
            /\ AllTokensLegal(
                 make_move(b, match.list[CHOOSE h \in match.hits :
                                            \A k \in match.hits : h <= k]),
                 tokens, i + 1)

\* C18: parse_uci_position_command succeeds only if every token after `moves`
\* is the UCI string of a legal move in the position the tokens before it lead
\* to; on success the history holds one entry per move token; a token that is
\* no UCI move string, such as e4, yields an error.
C18_PositionMovesLegal ==
    (cur_cmd.type = "Position") =>
        /\ (pos_state = "ok") =>
               /\ AllTokensLegal(HeadBoard(cur_cmd.text), MoveTokensOf(cur_cmd.text), 1)
               /\ Len(pos.history) = Len(MoveTokensOf(cur_cmd.text))
        /\ (\E i \in DOMAIN MoveTokensOf(cur_cmd.text) :
               Len(MoveTokensOf(cur_cmd.text)[i]) \notin {4, 5}) => pos_state = "err"

\* C19: for every position and every legal move m the generator produces
\* (normal, promotion, en passant, castle), parsing the UCI string of m on
\* that position gives back exactly m.
C19_UciRoundTrip ==
    \A side \in {pos.game_state.side_to_move} :
    \A gen \in {generate_legal_moves(pos, side)} :
    \A i \in DOMAIN gen.moves :
        parse_uci_move(serialize_move_to_uci_str(gen.moves[i], side), pos).mv = gen.moves[i]

\* ------------------------------------------------------------------------
\* perft.rs: the node count of the legal-move tree, run as the recursion runs
\* (one frame per perft call, one step per move of a frame)
\* ------------------------------------------------------------------------
\* "r3k2r/p1ppqpb1/bn2pnp1/3PN3/1p2P3/2N2Q1p/PPPBBPPP/R3K2R w KQkq -"
FEN_kiwipete ==
    << <<"r", "3", "k", "2", "r", "/", "p", "1", "p", "p", "q", "p", "b", "1", "/", "b", "n", "2", "p", "n", "p", "1", "/", "3", "P", "N", "3", "/", "1", "p", "2", "P", "3", "/", "2", "N", "2", "Q", "1", "p", "/", "P", "P", "P", "B", "B", "P", "P", "P", "/", "R", "3", "K", "2", "R">>, <<"w">>, <<"K", "Q", "k", "q">>, <<"-">> >>
\* "8/2p5/3p4/KP5r/1R3p1k/8/4P1P1/8 w - - 0 1"
FEN_position_3 ==
    << <<"8", "/", "2", "p", "5", "/", "3", "p", "4", "/", "K", "P", "5", "r", "/", "1", "R", "3", "p", "1", "k", "/", "8", "/", "4", "P", "1", "P", "1", "/", "8">>, <<"w">>, <<"-">>, <<"-">>, <<"0">>, <<"1">> >>
\* "r3k2r/Pppp1ppp/1b3nbN/nP6/BBP1P3/q4N2/Pp1P2PP/R2Q1RK1 w kq - 0 1"
FEN_position_4 ==
    << <<"r", "3", "k", "2", "r", "/", "P", "p", "p", "p", "1", "p", "p", "p", "/", "1", "b", "3", "n", "b", "N", "/", "n", "P", "6", "/", "B", "B", "P", "1", "P", "3", "/", "q", "4", "N", "2", "/", "P", "p", "1", "P", "2", "P", "P", "/", "R", "2", "Q", "1", "R", "K", "1">>, <<"w">>, <<"k", "q">>, <<"-">>, <<"0">>, <<"1">> >>
\* "rnbq1k1r/pp1Pbppp/2p5/8/2B5/8/PPP1NnPP/RNBQK2R w KQ - 1 8"
FEN_position_5 ==
    << <<"r", "n", "b", "q", "1", "k", "1", "r", "/", "p", "p", "1", "P", "b", "p", "p", "p", "/", "2", "p", "5", "/", "8", "/", "2", "B", "5", "/", "8", "/", "P", "P", "P", "1", "N", "n", "P", "P", "/", "R", "N", "B", "Q", "K", "2", "R">>, <<"w">>, <<"K", "Q">>, <<"-">>, <<"1">>, <<"8">> >>
\* "r4rk1/1pp1qppp/p1np1n2/2b1p1B1/2B1P1b1/P1NP1N2/1PP1QPPP/R4RK1 w - - 0 10"
FEN_position_6 ==
    << <<"r", "4", "r", "k", "1", "/", "1", "p", "p", "1", "q", "p", "p", "p", "/", "p", "1", "n", "p", "1", "n", "2", "/", "2", "b", "1", "p", "1", "B", "1", "/", "2", "B", "1", "P", "1", "b", "1", "/", "P", "1", "N", "P", "1", "N", "2", "/", "1", "P", "P", "1", "Q", "P", "P", "P", "/", "R", "4", "R", "K", "1">>, <<"w">>, <<"-">>, <<"-">>, <<"0">>, <<"1", "0">> >>

Expect(fen, depth, nodes) == [fen |-> fen, depth |-> depth, nodes |-> nodes]

\* the expectations of the perft tests: position, depth, published node count
PERFT_EXPECTATIONS ==
    << Expect(START_POS_FEN, 1, 20), Expect(START_POS_FEN, 2, 400),
       Expect(START_POS_FEN, 3, 8902), Expect(START_POS_FEN, 4, 197281),
       Expect(START_POS_FEN, 5, 4865609),
       Expect(FEN_kiwipete, 1, 48), Expect(FEN_kiwipete, 2, 2039),
       Expect(FEN_kiwipete, 3, 97862), Expect(FEN_kiwipete, 4, 4085603),
       Expect(FEN_kiwipete, 5, 193690690),
       Expect(FEN_position_3, 1, 14), Expect(FEN_position_3, 2, 191),
       Expect(FEN_position_3, 3, 2812), Expect(FEN_position_3, 4, 43238),
       Expect(FEN_position_4, 1, 6), Expect(FEN_position_4, 2, 264),
       Expect(FEN_position_4, 3, 9467), Expect(FEN_position_4, 4, 422333),
       Expect(FEN_position_4, 5, 15833292),
       Expect(FEN_position_5, 1, 44), Expect(FEN_position_5, 2, 1486),
       Expect(FEN_position_5, 3, 62379), Expect(FEN_position_5, 4, 2103487),
       Expect(FEN_position_6, 1, 46), Expect(FEN_position_6, 2, 2079),
       Expect(FEN_position_6, 3, 89890), Expect(FEN_position_6, 4, 3894594) >>

\* the expectations run are those with at most this many leaves
MaxPerftNodes == 200000

PerftRuns == {t \in DOMAIN PERFT_EXPECTATIONS : PERFT_EXPECTATIONS[t].nodes <= MaxPerftNodes}

PerftFrame(depth, moves) == [depth |-> depth, moves |-> moves, i |-> 1, nodes |-> 0]

TopFrame == call_stack[Len(call_stack)]

\* test_perft: the position decoded, perft about to be called with the depth
InitPerft ==
    /\ InitWorker
    /\ pos_state = "ok"
    /\ killer_moves = {}
    /\ history_moves = {}
    /\ call_stack = <<>>
    /\ \E t \in PerftRuns :
          /\ pos = parse_fen_string(PERFT_EXPECTATIONS[t].fen).board
          /\ call = [fn |-> "perft", test |-> t, status |-> "called", nodes |-> 0]

\* perft entered with depth >= 1: the legal moves go into the frame's buffer
PerftCall ==
    /\ call.fn = "perft"
    /\ call.status = "called"
    /\ \E gen \in {generate_all_legal_moves(pos, pos.game_state.side_to_move)} :
          /\ pos' = gen.board
          /\ call_stack' = <<PerftFrame(PERFT_EXPECTATIONS[call.test].depth, gen.moves)>>
    /\ call' = [call EXCEPT !.status = "running"]
    /\ UNCHANGED <<pos_state, killer_moves, history_moves>>
    /\ UNCHANGED engine_vars

\* a move of a depth-1 frame: made, perft(depth 0) returns 1, unmade
PerftLeaf ==
    /\ call.fn = "perft"
    /\ call.status = "running"
    /\ TopFrame.i <= Len(TopFrame.moves)
    /\ TopFrame.depth = 1
    /\ pos' = unmake_move(make_move(pos, TopFrame.moves[TopFrame.i]))
    /\ call_stack' = [call_stack EXCEPT ![Len(call_stack)].i = @ + 1,
                                        ![Len(call_stack)].nodes = @ + 1]
    /\ UNCHANGED <<call, pos_state, killer_moves, history_moves>>
    /\ UNCHANGED engine_vars

\* a move of a deeper frame: made, perft entered one level down
PerftDescend ==
    /\ call.fn = "perft"
    /\ call.status = "running"
    /\ TopFrame.i <= Len(TopFrame.moves)
    /\ TopFrame.depth > 1
    /\ \E made \in {make_move(pos, TopFrame.moves[TopFrame.i])} :
       \E gen \in {generate_all_legal_moves(made, made.game_state.side_to_move)} :
          /\ pos' = gen.board
          /\ call_stack' = Append(call_stack, PerftFrame(TopFrame.depth - 1, gen.moves))
    /\ UNCHANGED <<call, pos_state, killer_moves, history_moves>>
    /\ UNCHANGED engine_vars

\* the loop of the top frame is over: its count goes to the caller, which
\* unmakes its move and steps on
PerftReturn ==
    /\ call.fn = "perft"
    /\ call.status = "running"
    /\ TopFrame.i > Len(TopFrame.moves)
    /\ IF Len(call_stack) = 1
       THEN /\ call' = [call EXCEPT !.status = "returned", !.nodes = TopFrame.nodes]
            /\ call_stack' = <<>>
            /\ pos' = pos
       ELSE /\ call' = call
            /\ call_stack' =
                 [SubSeq(call_stack, 1, Len(call_stack) - 1)
                    EXCEPT ![Len(call_stack) - 1].i = @ + 1,
                           ![Len(call_stack) - 1].nodes = @ + TopFrame.nodes]
            /\ pos' = unmake_move(pos)
    /\ UNCHANGED <<pos_state, killer_moves, history_moves>>
    /\ UNCHANGED engine_vars

NextPerft ==
    \/ PerftCall
    \/ PerftLeaf
    \/ PerftDescend
    \/ PerftReturn

SpecPerft == InitPerft /\ [][NextPerft]_vars

MATE_EVALUATION == 30000

\* piece_scores::get_piece_score
get_piece_score(piece, side) ==
    (IF side = White THEN 1 ELSE -1) *
    (CASE piece = Pawn -> 100
       [] piece = Knight -> 300
       [] piece = Bishop -> 350
       [] piece = Rook -> 500
       [] piece = Queen -> 1000
       [] piece = King -> 10000)

PAWN_PST_TABLE ==
    << 0, 0, 0, 0, 0, 0, 0, 0,
       30, 30, 30, 40, 40, 30, 30, 30,
       20, 20, 20, 30, 30, 30, 20, 20,
       10, 10, 10, 20, 20, 10, 10, 10,
       5, 5, 10, 20, 20, 5, 5, 5,
       0, 0, 0, 5, 5, 0, 0, 0,
       0, 0, 0, -10, -10, 0, 0, 0,
       0, 0, 0, 0, 0, 0, 0, 0 >>

KNIGHT_PST_TABLE ==
    << 5, 0, 0, 0, 0, 0, 0, -5,
       -5, 0, 0, 10, 10, 0, 0, -5,
       -5, 5, 20, 20, 20, 20, 5, -5,
       -5, 10, 20, 30, 30, 20, 10, -5,
       -5, 10, 20, 30, 30, 20, 10, -5,
       -5, 5, 20, 10, 10, 20, 5, -5,
       -5, 0, 0, 0, 0, 0, 0, -5,
       -5, -10, 0, 0, 0, 0, -10, -5 >>

BISHOP_PST_TABLE ==
    << 0, 0, 0, 0, 0, 0, 0, 0,
       0, 0, 0, 0, 0, 0, 0, 0,
       0, 0, 0, 10, 10, 0, 0, 0,
       0, 0, 10, 15, 15, 10, 0, 0,
       0, 0, 10, 15, 15, 10, 0, 0,
       0, 10, 0, 0, 0, 0, 10, 0,
       0, 15, 0, 0, 0, 0, 15, 0,
       0, 0, -10, 0, 0, -10, 0, 0 >>

ROOK_PST_TABLE ==
    << 50, 50, 50, 50, 50, 50, 50, 50,
       50, 50, 50, 50, 50, 50, 50, 50,
       0, 0, 10, 20, 20, 10, 0, 0,
       0, 0, 10, 20, 20, 10, 0, 0,
       0, 0, 10, 20, 20, 10, 0, 0,
       0, 0, 10, 20, 20, 10, 0, 0,
       0, 0, 10, 20, 20, 10, 0, 0,
       0, 0, 0, 20, 20, 0, 0, 0 >>

QUEEN_PST_TABLE ==
    << -20, -10, -10, -5, -5, -10, -10, -20,
       -10, 0, 5, 0, 0, 0, 0, -10,
       -10, 5, 5, 5, 5, 5, 0, -10,
       0, 0, 5, 5, 5, 5, 0, -5,
       -5, 0, 5, 5, 5, 5, 0, -5,
       -10, 0, 5, 5, 5, 5, 0, -10,
       -10, 0, 0, 0, 0, 0, 0, -10,
       -20, -10, -10, -5, -5, -10, -10, -20 >>

KING_MIDGAME_PST_TABLE ==
    << -30, -40, -40, -50, -50, -40, -40, -30,
       -30, -40, -40, -50, -50, -40, -40, -30,
       -30, -40, -40, -50, -50, -40, -40, -30,
       -30, -40, -40, -50, -50, -40, -40, -30,
       -20, -30, -30, -40, -40, -30, -30, -20,
       -10, -20, -20, -20, -20, -20, -20, -10,
       20, 20, 0, 0, 0, 0, 20, 20,
       20, 30, 10, 0, 0, 10, 30, 20 >>

KING_ENDGAME_PST_TABLE ==
    << -50, -30, -30, -30, -30, -30, -30, -50,
       -30, -30, 0, 0, 0, 0, -30, -30,
       -30, -10, 20, 30, 30, 20, -10, -30,
       -30, -10, 30, 40, 40, 30, -10, -30,
       -30, -10, 30, 40, 40, 30, -10, -30,
       -30, -10, 20, 30, 30, 20, -10, -30,
       -30, -20, -10, 0, 0, -10, -20, -30,
       -50, -40, -30, -20, -20, -30, -40, -50 >>

\* variant: both sides read the table at the square's own index
get_pst_value_unflipped(table, square, side) == table[square + 1]

\* pst_tables::get_pst_value: the tables are written from rank 8 down, White
\* reads them at square ^ 56
get_pst_value(table, square, side) ==
    IF side = White
    THEN table[((7 - (square \div 8)) * 8 + (square % 8)) + 1]
    ELSE table[square + 1]

count_ones(bitboard) == Cardinality(bitboard)

calc_phase(b) ==
    CHOOSE ph \in
      {IF raw < 0 THEN 0 ELSE IF raw > 24 THEN 24 ELSE raw :
         raw \in {  count_ones(get_bb(b, White, Knight))
                  + count_ones(get_bb(b, Black, Knight))
                  + count_ones(get_bb(b, White, Bishop))
                  + count_ones(get_bb(b, Black, Bishop))
                  + 2 * (  count_ones(get_bb(b, White, Rook))
                         + count_ones(get_bb(b, Black, Rook)))
                  + 4 * (  count_ones(get_bb(b, White, Queen))
                         + count_ones(get_bb(b, Black, Queen)))}} : TRUE

pst_table_of(piece, phase) ==
    CASE piece = Pawn -> PAWN_PST_TABLE
      [] piece = Knight -> KNIGHT_PST_TABLE
      [] piece = Bishop -> BISHOP_PST_TABLE
      [] piece = Rook -> ROOK_PST_TABLE
      [] piece = Queen -> QUEEN_PST_TABLE
      [] piece = King -> IF phase \in 0..10 THEN KING_ENDGAME_PST_TABLE
                         ELSE KING_MIDGAME_PST_TABLE

RECURSIVE SumPst(_, _, _)
SumPst(table, squares, side) ==
    IF squares = {} THEN 0
    ELSE CHOOSE sum \in
           {get_pst_value(table, sq, side) + SumPst(table, squares \ {sq}, side) :
              sq \in {CHOOSE s \in squares : TRUE}} : TRUE

\* the contribution of one piece type to the score seen from White
piece_term(b, piece, phase) ==
      count_ones(get_bb(b, White, piece)) * get_piece_score(piece, White)
    + count_ones(get_bb(b, Black, piece)) * get_piece_score(piece, Black)
    + SumPst(pst_table_of(piece, phase), get_bb(b, White, piece), White)
    - SumPst(pst_table_of(piece, phase), get_bb(b, Black, piece), Black)

evalute(b, side) ==
    CHOOSE score \in
      {(IF side = White THEN 1 ELSE -1) *
       (  piece_term(b, Pawn, phase) + piece_term(b, Knight, phase)
        + piece_term(b, Bishop, phase) + piece_term(b, Rook, phase)
        + piece_term(b, Queen, phase) + piece_term(b, King, phase)) :
         phase \in {calc_phase(b)}} : TRUE

evalute_cur_side(b) == evalute(b, b.game_state.side_to_move)

\* the legal captures of Board::generate_legal_captures: the legal list
\* restricted to the capturing moves
is_capture(mv) == mv.kind = "Normal" /\ mv.captured # None

is_promo(mv) == mv.kind = "Normal" /\ mv.promo # None

generate_legal_captures(b, moving_side) ==
    CHOOSE result \in
      {[moves |-> SelectSeq(gen.moves, is_capture), board |-> gen.board] :
         gen \in {generate_legal_moves(b, moving_side)}} : TRUE

\* number of move buffers search_bestmove allocates (chess_consts::MAX_PLY)
MAX_PLY == 64

Max(x, y) == IF x >= y THEN x ELSE y

ValueResult(value, b) == [panic |-> FALSE, value |-> value, board |-> b]

\* bufs.split_first_mut().unwrap() on an empty slice of buffers
PanicResult(b) == [panic |-> TRUE, value |-> 0, board |-> b]

\* quiescence: stand-pat, then the legal captures searched with the same
\* cutoff discipline; bufs_left is the number of move buffers still unused
RECURSIVE quiescence_search(_, _, _, _)
RECURSIVE quiescence_loop(_, _, _, _, _, _)
quiescence_search(b, alpha, beta, bufs_left) ==
    CHOOSE result \in
      {IF eval_score >= beta THEN ValueResult(beta, b)
       ELSE IF bufs_left = 0 THEN PanicResult(b)
       ELSE CHOOSE r \in
              {quiescence_loop(caps.board, caps.moves, 1, Max(alpha, eval_score), beta,
                               bufs_left - 1) :
                 caps \in {generate_legal_captures(b, b.game_state.side_to_move)}} : TRUE :
         eval_score \in {evalute_cur_side(b)}} : TRUE

quiescence_loop(b, moves, i, alpha, beta, bufs_left) ==
    IF i > Len(moves) THEN ValueResult(alpha, b)
    ELSE CHOOSE result \in
           {IF child.panic THEN child
            ELSE IF 0 - child.value >= beta THEN ValueResult(beta, unmake_move(child.board))
            ELSE quiescence_loop(unmake_move(child.board), moves, i + 1,
                                 Max(alpha, 0 - child.value), beta, bufs_left) :
              child \in {quiescence_search(make_move(b, moves[i]), 0 - beta, 0 - alpha,
                                           bufs_left)}} : TRUE

\* ------------------------------------------------------------------------
\* move_ordering.rs
\* ------------------------------------------------------------------------
MVV_TABLE ==
    << <<105, 205, 305, 405, 505, 605>>,
       <<104, 204, 304, 404, 504, 604>>,
       <<103, 203, 303, 403, 503, 603>>,
       <<102, 202, 302, 402, 502, 602>>,
       <<101, 201, 301, 401, 501, 601>>,
       <<100, 200, 300, 400, 500, 600>> >>

get_mvv_score(attacker, victim) ==
    MVV_TABLE[IndexOf(PieceAll, attacker)][IndexOf(PieceAll, victim)]

\* Move::get_from_to; a castle carries the king's squares
get_from_to(mv, side) ==
    IF mv.kind = "Normal" THEN <<mv.from, mv.to>>
    ELSE get_castling_positions(side, King, mv.side)

\* KILLER_MOVES[slot][ply]; the table is kept as the set of its Some entries
killer_at(km, slot, ply) ==
    IF \E k \in km : k.slot = slot /\ k.ply = ply
    THEN (CHOOSE k \in km : k.slot = slot /\ k.ply = ply).mv
    ELSE NoMove

set_killer(km, slot, ply, mv) ==
    {k \in km : ~(k.slot = slot /\ k.ply = ply)}
    \cup (IF mv = NoMove THEN {} ELSE {[slot |-> slot, ply |-> ply, mv |-> mv]})

update_killers(km, mv, ply) ==
    IF killer_at(km, 0, ply) = mv THEN km
    ELSE set_killer(set_killer(km, 1, ply, killer_at(km, 0, ply)), 0, ply, mv)

clear_killers == {}

\* HISTORY_MOVES[from][to]; the table is kept as the set of its non-zero entries
history_at(hm, from, to) ==
    IF \E h \in hm : h.from = from /\ h.to = to
    THEN (CHOOSE h \in hm : h.from = from /\ h.to = to).n
    ELSE 0

\* u64::saturating_add; the counts are sums of depth * depth with depth below
\* MAX_PLY over the cutoffs of one search, far below the point of saturation
saturating_add(x, y) == x + y

update_history(hm, mv, depth, side) ==
    CHOOSE table \in
      {{h \in hm : ~(h.from = ft[1] /\ h.to = ft[2])}
       \cup {[from |-> ft[1], to |-> ft[2],
              n |-> saturating_add(history_at(hm, ft[1], ft[2]),
                                   depth * depth)]} :
         ft \in {get_from_to(mv, side)}} : TRUE

normalize_history(hm) ==
    {[from |-> h.from, to |-> h.to, n |-> h.n \div 2] : h \in {g \in hm : g.n \div 2 > 0}}

\* u64 as i32: the low 32 bits, which for a count below 2^31 are the count
AsI32(x) == x

score_move(mv, ply, only_captures, km, hm, side) ==
    IF is_capture(mv) THEN get_mvv_score(mv.piece, mv.captured) + 100000
    ELSE IF only_captures THEN 0
    ELSE IF killer_at(km, 0, ply) = mv THEN 90000
    ELSE IF killer_at(km, 1, ply) = mv THEN 80000
    ELSE AsI32(history_at(hm, get_from_to(mv, side)[1], get_from_to(mv, side)[2]))

\* the inner while loop of sort_moves: the item goes behind the last entry of
\* the sorted prefix whose score is not smaller
insert_sorted(sorted, item) ==
    CHOOSE result \in
      {SubSeq(sorted, 1, j) \o <<item>> \o SubSeq(sorted, j + 1, Len(sorted)) :
         j \in {CHOOSE k \in 0..Len(sorted) :
                  /\ k > 0 => sorted[k].sc >= item.sc
                  /\ \A l \in (k + 1)..Len(sorted) : sorted[l].sc < item.sc}} : TRUE

RECURSIVE sort_loop(_, _, _)
sort_loop(scored, sorted, i) ==
    IF i > Len(scored) THEN sorted
    ELSE sort_loop(scored, insert_sorted(sorted, scored[i]), i + 1)

sort_moves(moves, ply, only_captures, km, hm, side) ==
    IF Len(moves) <= 1 THEN moves
    ELSE CHOOSE result \in
           {[i \in 1..Len(sorted) |-> sorted[i].mv] \o <<>> :
              sorted \in
                {sort_loop(scored, <<scored[1]>>, 2) :
                   scored \in
                     {[i \in 1..Len(moves) |->
                         [mv |-> moves[i],
                          sc |-> score_move(moves[i], ply, only_captures, km, hm, side)]]
                      \o <<>>}}} : TRUE

\* ------------------------------------------------------------------------
\* searching.rs: search_bestmove and negamax_ab run as the recursion runs (one
\* frame per call that has not returned, one step per loop iteration), with
\* the stop flag set by another thread at any moment
\* ------------------------------------------------------------------------
INFINITY == 100000000
ONLY_CAPTURES_DEPTH == 2

\* "7k/8/8/8/8/8/8/K7 w - - 0 1"
FEN_two_kings ==
    << <<"7", "k", "/", "8", "/", "8", "/", "8", "/", "8", "/", "8", "/", "8", "/", "K", "7">>, <<"w">>, <<"-">>, <<"-">>, <<"0">>, <<"1">> >>
\* "7k/6Q1/6K1/8/8/8/8/8 b - - 0 1"
FEN_checkmate ==
    << <<"7", "k", "/", "6", "Q", "1", "/", "6", "K", "1", "/", "8", "/", "8", "/", "8", "/", "8", "/", "8">>, <<"b">>, <<"-">>, <<"-">>, <<"0">>, <<"1">> >>
\* "7k/5Q2/6K1/8/8/8/8/8 b - - 0 1"
FEN_stalemate ==
    << <<"7", "k", "/", "5", "Q", "2", "/", "6", "K", "1", "/", "8", "/", "8", "/", "8", "/", "8", "/", "8">>, <<"b">>, <<"-">>, <<"-">>, <<"0">>, <<"1">> >>
\* "4k3/8/8/3p4/4P3/8/8/4K3 w - - 0 1"
FEN_pawn_capture ==
    << <<"4", "k", "3", "/", "8", "/", "8", "/", "3", "p", "4", "/", "4", "P", "3", "/", "8", "/", "8", "/", "4", "K", "3">>, <<"w">>, <<"-">>, <<"-">>, <<"0">>, <<"1">> >>

\* depths searched on the small positions
MaxSearchDepth == 3

SearchInput(fen, depth) == [fen |-> fen, depth |-> depth]

SearchInputs ==
    {SearchInput(fen, depth) :
        fen \in {FEN_two_kings, FEN_checkmate, FEN_stalemate, FEN_pawn_capture},
        depth \in 1..MaxSearchDepth}
    \cup {SearchInput(FEN_two_kings, MAX_PLY)}

RootFrame(moves) ==
    [fn |-> "root", moves |-> moves, i |-> 1, best_mv |-> moves[1],
     best_score |-> 0 - INFINITY, alpha |-> 0 - INFINITY]

NegamaxFrame(moves, depth, alpha, beta, ply) ==
    [fn |-> "negamax", moves |-> moves, i |-> 1, best |-> 0 - INFINITY,
     alpha |-> alpha, beta |-> beta, depth |-> depth, ply |-> ply]

EnterValue(value, b) == [kind |-> "value", value |-> value, board |-> b, frame |-> <<>>]
EnterPanic(b) == [kind |-> "panic", value |-> 0, board |-> b, frame |-> <<>>]
EnterFrame(frame, b) == [kind |-> "frame", value |-> 0, board |-> b, frame |-> frame]

\* negamax_ab up to its loop: the draw by the half-move clock, the move buffer
\* taken, the legal moves, mate / stalemate, quiescence at depth 0, the sort
negamax_enter(b, depth, alpha, beta, ply, km, hm) ==
    IF b.game_state.half_move_clock >= 100 THEN EnterValue(0, b)
    ELSE IF ply >= MAX_PLY THEN EnterPanic(b)
    ELSE CHOOSE result \in
           {IF gen.moves = <<>>
            THEN EnterValue(IF is_in_check(gen.board, b.game_state.side_to_move)
                            THEN (0 - MATE_EVALUATION) + ply ELSE 0, gen.board)
            ELSE IF depth = 0
            THEN CHOOSE r \in
                   {IF q.panic THEN EnterPanic(q.board) ELSE EnterValue(q.value, q.board) :
                      q \in {quiescence_search(gen.board, alpha, beta, MAX_PLY - ply)}} : TRUE
            ELSE EnterFrame(
                   NegamaxFrame(sort_moves(gen.moves, ply, depth <= ONLY_CAPTURES_DEPTH,
                                           km, hm, b.game_state.side_to_move),
                                depth, alpha, beta, ply),
                   gen.board) :
              gen \in {generate_all_legal_moves(b, b.game_state.side_to_move)}} : TRUE

search_other_vars ==
    <<main_pc, lines_read, ping_id, cmd_q, ev_q, stdout, worker_pc, cur_cmd, board,
      search_thread, search_result_rx, threads, ev_log, handled, superseded, pos_state>>

\* a position decoded, search_bestmove about to be called on it with the depth
InitSearch ==
    /\ InitWorker
    /\ pos_state = "ok"
    /\ killer_moves = {}
    /\ history_moves = {}
    /\ call_stack = <<>>
    /\ \E input \in SearchInputs :
       \E b \in {parse_fen_string(input.fen).board} :
          /\ pos = b
          /\ call = [fn |-> "search_bestmove", status |-> "called", depth |-> input.depth,
                     start |-> b, result |-> NoMove, returning |-> FALSE, value |-> 0]

Searching(frame_fn) ==
    /\ call.fn = "search_bestmove"
    /\ call.status = "running"
    /\ TopFrame.fn = frame_fn

\* StopToken::request_stop from another thread, before or during the search
StopRequest ==
    /\ call.fn = "search_bestmove"
    /\ call.status \in {"called", "running"}
    /\ ~stop_token
    /\ stop_token' = request_stop(stop_token)
    /\ UNCHANGED <<pos, call, call_stack, killer_moves, history_moves>>
    /\ UNCHANGED search_other_vars

\* search_bestmove up to its loop
SearchCall ==
    /\ call.fn = "search_bestmove"
    /\ call.status = "called"
    /\ killer_moves' = clear_killers
    /\ history_moves' = normalize_history(history_moves)
    /\ \E gen \in {generate_all_legal_moves(pos, pos.game_state.side_to_move)} :
          /\ pos' = gen.board
          /\ IF gen.moves = <<>>
             THEN /\ call' = [call EXCEPT !.status = "returned", !.result = NoMove]
                  /\ call_stack' = <<>>
             ELSE /\ call' = [call EXCEPT !.status = "running"]
                  /\ call_stack' =
                       <<RootFrame(sort_moves(gen.moves, 0, call.depth <= ONLY_CAPTURES_DEPTH,
                                              clear_killers, normalize_history(history_moves),
                                              pos.game_state.side_to_move))>>
    /\ UNCHANGED stop_token
    /\ UNCHANGED search_other_vars

\* what the caller's step becomes once the callee's prologue has run
Entered(e) ==
    /\ pos' = e.board
    /\ CASE e.kind = "panic" ->
              /\ call' = [call EXCEPT !.status = "panicked"]
              /\ call_stack' = call_stack
         [] e.kind = "value" ->
              /\ call' = [call EXCEPT !.returning = TRUE, !.value = e.value]
              /\ call_stack' = call_stack
         [] e.kind = "frame" ->
              /\ call' = call
              /\ call_stack' = Append(call_stack, e.frame)

\* root loop: the stop flag read unset, the move made, negamax_ab called
RootIterate ==
    /\ Searching("root")
    /\ ~call.returning
    /\ TopFrame.i <= Len(TopFrame.moves)
    /\ ~stop_token
    /\ \E e \in {negamax_enter(make_move(pos, TopFrame.moves[TopFrame.i]), call.depth - 1,
                               0 - INFINITY, 0 - TopFrame.alpha, 1,
                               killer_moves, history_moves)} : Entered(e)
    /\ UNCHANGED <<stop_token, killer_moves, history_moves>>
    /\ UNCHANGED search_other_vars

\* root loop: negamax_ab has returned, the move is unmade and scored
RootReceive ==
    /\ Searching("root")
    /\ call.returning
    /\ pos' = unmake_move(pos)
    /\ call' = [call EXCEPT !.returning = FALSE]
    /\ call_stack' =
         [call_stack EXCEPT
            ![Len(call_stack)] =
               [@ EXCEPT !.i = @ + 1,
                         !.best_mv = IF 0 - call.value > TopFrame.best_score
                                     THEN TopFrame.moves[TopFrame.i] ELSE @,
                         !.best_score = Max(@, 0 - call.value),
                         !.alpha = Max(@, 0 - call.value)]]
    /\ UNCHANGED <<stop_token, killer_moves, history_moves>>
    /\ UNCHANGED search_other_vars

\* root loop left, by the stop flag or at the end of the list: Some(best_mv)
RootReturn ==
    /\ Searching("root")
    /\ ~call.returning
    /\ TopFrame.i > Len(TopFrame.moves) \/ stop_token
    /\ call' = [call EXCEPT !.status = "returned", !.result = TopFrame.best_mv]
    /\ call_stack' = <<>>
    /\ UNCHANGED <<pos, stop_token, killer_moves, history_moves>>
    /\ UNCHANGED search_other_vars

\* negamax_ab loop: the stop flag read unset, the move made, the recursion
NegamaxIterate ==
    /\ Searching("negamax")
    /\ ~call.returning
    /\ TopFrame.i <= Len(TopFrame.moves)
    /\ ~stop_token
    /\ \E e \in {negamax_enter(make_move(pos, TopFrame.moves[TopFrame.i]),
                               TopFrame.depth - 1, 0 - TopFrame.beta,
                               0 - Max(TopFrame.best, TopFrame.alpha), TopFrame.ply + 1,
                               killer_moves, history_moves)} : Entered(e)
    /\ UNCHANGED <<stop_token, killer_moves, history_moves>>
    /\ UNCHANGED search_other_vars

\* negamax_ab loop: the recursion has returned; the move is unmade and scored,
\* a score >= beta records a quiet move as killer and in the history table and
\* ends the call
NegamaxReceive ==
    /\ Searching("negamax")
    /\ call.returning
    /\ pos' = unmake_move(pos)
    /\ \E score \in {0 - call.value} :
       \E mv \in {TopFrame.moves[TopFrame.i]} :
       \E mover \in {unmake_move(pos).game_state.side_to_move} :
          IF score >= TopFrame.beta
          THEN /\ call' = [call EXCEPT !.value = Max(TopFrame.best, score)]
               /\ call_stack' = SubSeq(call_stack, 1, Len(call_stack) - 1)
               /\ IF ~is_capture(mv) /\ ~is_promo(mv)
                  THEN /\ killer_moves' = update_killers(killer_moves, mv, TopFrame.ply)
                       /\ history_moves' =
                            update_history(history_moves, mv, TopFrame.depth, mover)
                  ELSE UNCHANGED <<killer_moves, history_moves>>
          ELSE /\ call' = [call EXCEPT !.returning = FALSE]
               /\ call_stack' =
                    [call_stack EXCEPT
                       ![Len(call_stack)] =
                          [@ EXCEPT !.i = @ + 1, !.best = Max(@, score)]]
               /\ UNCHANGED <<killer_moves, history_moves>>
    /\ UNCHANGED stop_token
    /\ UNCHANGED search_other_vars

\* negamax_ab loop left: at the end of the list with best, on the stop flag
\* with best, or with alpha when no move was searched
NegamaxReturn ==
    /\ Searching("negamax")
    /\ ~call.returning
    /\ TopFrame.i > Len(TopFrame.moves) \/ stop_token
    /\ call' = [call EXCEPT
                  !.returning = TRUE,
                  !.value = IF TopFrame.i <= Len(TopFrame.moves)
                               /\ TopFrame.best = 0 - INFINITY
                            THEN TopFrame.alpha ELSE TopFrame.best]
    /\ call_stack' = SubSeq(call_stack, 1, Len(call_stack) - 1)
    /\ UNCHANGED <<pos, stop_token, killer_moves, history_moves>>
    /\ UNCHANGED search_other_vars

NextSearch ==
    \/ StopRequest
    \/ SearchCall
    \/ RootIterate
    \/ RootReceive
    \/ RootReturn
    \/ NegamaxIterate
    \/ NegamaxReceive
    \/ NegamaxReturn

SpecSearch == InitSearch /\ [][NextSearch]_vars

MovesOf(list) == {list[i] : i \in DOMAIN list}

\* C17: search_bestmove with depth >= 1 always returns; on a position with a
\* legal move it returns a move of the legal list, whether the stop flag is
\* never set, set before the call or set during the search; on a checkmated
\* or stalemated position it returns no move.
C17_SearchReturnsLegalMove ==
    (call.fn = "search_bestmove") =>
        /\ call.status # "panicked"
        /\ (call.status = "returned") =>
              \E legal \in {generate_legal_moves(call.start,
                                                 call.start.game_state.side_to_move).moves} :
                 IF legal = <<>> THEN call.result = NoMove
                 ELSE call.result \in MovesOf(legal)

\* ------------------------------------------------------------------------
\* fen_parser.rs run on FEN strings: parse_fen_string called on one text
\* ------------------------------------------------------------------------
FenPlacements == {START_POS_FEN[1], FEN_clock_100[1]}
FenSides == {<<"w">>, <<"b">>}
FenEnPassantFields ==
    {<<"-">>, <<"a", "3">>, <<"e", "3">>, <<"h", "3">>, <<"a", "6">>, <<"e", "6">>,
     <<"h", "6">>, <<"e", "4">>, <<"e", "2">>, <<"e", "7">>, <<"e">>, <<"e", "3", "3">>}
FenClockFields ==
    {<<"0">>, <<"5", "0">>, <<"1", "0", "0">>, <<"1", "0", "1">>, <<"2", "5", "5">>,
     <<"2", "5", "6">>, <<"-", "1">>, <<"x">>}
FenFullMoveFields ==
    {<<"0">>, <<"1">>, <<"6", "5", "5", "3", "5">>, <<"6", "5", "5", "3", "6">>, <<"x">>}

FenInputs ==
    {<<placement, side, <<"-">>, en_passant, half_move_clock, full_moves>> :
        placement \in FenPlacements, side \in FenSides,
        en_passant \in FenEnPassantFields, half_move_clock \in FenClockFields,
        full_moves \in FenFullMoveFields}

InitFen ==
    /\ InitWorker
    /\ pos_state = "ok"
    /\ killer_moves = {}
    /\ history_moves = {}
    /\ call_stack = <<>>
    /\ pos = BoardDefault
    /\ \E fen \in FenInputs :
          call = [fn |-> "parse_fen_string", fen |-> fen, status |-> "called",
                  ok |-> FALSE, err |-> None]

\* parse_fen_string(fen): Ok(board) or Err(kind)
FenParse ==
    /\ call.fn = "parse_fen_string"
    /\ call.status = "called"
    /\ \E r \in {parse_fen_string(call.fen)} :
          /\ call' = [call EXCEPT !.status = "returned", !.ok = r.ok, !.err = r.err]
          /\ pos' = r.board
          /\ pos_state' = IF r.ok THEN "ok" ELSE "err"
    /\ UNCHANGED <<call_stack, killer_moves, history_moves>>
    /\ UNCHANGED engine_vars

NextFen == FenParse

SpecFen == InitFen /\ [][NextFen]_vars

FenReturned == call.fn = "parse_fen_string" /\ call.status = "returned"

FenSide(fen) == IF fen[2] = <<"w">> THEN White ELSE Black

\* C21: the FEN decoder accepts an en-passant square only when its rank
\* matches the side to move (rank 6 for White to move, rank 3 for Black); a
\* rank-3 square with White to move or a rank-6 square with Black to move is
\* rejected with the en-passant error.
C21_EnPassantRankMatchesSide ==
    FenReturned =>
        \A sq \in {square_try_from(call.fen[4])} :
            (sq # NoneSq /\ can_be_en_passant(sq)
                /\ ~is_en_passant_target_for(sq, FenSide(call.fen)))
            => (~call.ok /\ call.err = "EnPassantSquareParse")

\* C22: the FEN decoder accepts a full-move number only in 1..65535 and a
\* half-move clock only in 0..100; a full-move number of 0 or a clock above
\* 100 is rejected with the error kind of its field and no position is
\* returned.
C22_ClockAndFullMoveRanges ==
    FenReturned =>
        /\ call.ok =>
              /\ pos.game_state.full_moves_count \in 1..65535
              /\ pos.game_state.half_move_clock \in 0..MAX_HALF_MOVES_COUNT
        /\ (call.fen[5] \in {<<"1", "0", "1">>, <<"2", "5", "5">>, <<"2", "5", "6">>}
              /\ call.err \notin {"EnPassantSquareParse"})
           => (~call.ok /\ call.err = "HalfMoveClockParse")
        /\ (call.fen[6] = <<"0">>
              /\ call.err \notin {"EnPassantSquareParse", "HalfMoveClockParse"})
           => (~call.ok /\ call.err = "FullMoveCountParse")

\* ------------------------------------------------------------------------
\* evaluation symmetry
\* ------------------------------------------------------------------------
\* the square of the same file on the mirrored rank
MirrorSquare(sq) == (7 - (sq \div 8)) * 8 + (sq % 8)

\* every piece of a side stands where a piece of the same kind of the other
\* side stands after mirroring the ranks
IsOwnMirror(b) ==
    \A side \in Sides : \A piece \in PieceSet :
        get_bb(b, side, piece) = {MirrorSquare(sq) : sq \in get_bb(b, opposite(side), piece)}

\* C23: evaluation is colour-symmetric: evalute(P, White) = -evalute(P, Black)
\* for every position, and a position that equals its own colour-swapped
\* vertical mirror (such as the start position) evaluates to 0.
C23_EvaluationSymmetric ==
    \E white_score \in {evalute(pos, White)} :
    \E black_score \in {evalute(pos, Black)} :
        /\ white_score = 0 - black_score
        /\ IsOwnMirror(pos) => (white_score = 0 /\ black_score = 0)

\* a mirrored position two moves after the start position
C23_Witness ==
    /\ Len(pos.history) = 2
    /\ get_bb(pos, White, Pawn) # get_bb(get_start_position, White, Pawn)
    /\ IsOwnMirror(pos)
    /\ evalute(pos, White) = 0

\* ------------------------------------------------------------------------
\* move_ordering.rs driven as the search drives it on one node: beta cutoffs
\* by a quiet move feed the killer slots and the history table, a new root
\* search clears the killers and halves the history, sort_moves orders the
\* node's legal moves
\* ------------------------------------------------------------------------
\* remaining depth of the nodes at which the cutoffs happen
MaxCutoffDepth == 20
\* plies of the nodes at which the cutoffs happen; the node sorted is at ply 1
MaxCutoffPly == 2
\* root searches started
MaxRootSearches == 1
\* the history counter is followed up to this value
MaxHistoryCount == 101000

QuietMoves(moves) == SelectSeq(moves, LAMBDA mv : ~is_capture(mv) /\ ~is_promo(mv))

InitOrdering ==
    /\ InitWorker
    /\ pos_state = "ok"
    /\ killer_moves = {}
    /\ history_moves = {}
    /\ call_stack = <<>>
    /\ pos = parse_fen_string(FEN_pawn_capture).board
    /\ call = [fn |-> "sort_moves", status |-> "idle", searches |-> 0, sorted |-> <<>>]

\* negamax_ab, score >= beta on a quiet move: update_killers(mv, ply) and
\* update_history(mv, depth)
OrderCutoff ==
    /\ call.fn = "sort_moves"
    /\ \E ply \in 1..MaxCutoffPly :
       \E mv \in {QuietMoves(generate_legal_moves(pos, pos.game_state.side_to_move).moves)[1]} :
       \E ft \in {get_from_to(mv, pos.game_state.side_to_move)} :
          /\ history_at(history_moves, ft[1], ft[2]) + MaxCutoffDepth * MaxCutoffDepth
                <= MaxHistoryCount
          /\ killer_moves' = update_killers(killer_moves, mv, ply)
          /\ history_moves' =
                update_history(history_moves, mv, MaxCutoffDepth, pos.game_state.side_to_move)
    /\ call' = [call EXCEPT !.status = "idle", !.sorted = <<>>]
    /\ UNCHANGED <<pos, pos_state, call_stack>>
    /\ UNCHANGED engine_vars

\* search_bestmove entered: clear_killers and normalize_history
OrderNewSearch ==
    /\ call.fn = "sort_moves"
    /\ call.searches < MaxRootSearches
    /\ killer_moves' = clear_killers
    /\ history_moves' = normalize_history(history_moves)
    /\ call' = [call EXCEPT !.status = "idle", !.sorted = <<>>, !.searches = @ + 1]
    /\ UNCHANGED <<pos, pos_state, call_stack>>
    /\ UNCHANGED engine_vars

\* sort_moves(cur, 1, false) on the legal moves of the node
OrderSort ==
    /\ call.fn = "sort_moves"
    /\ call.status = "idle"
    /\ call' = [call EXCEPT
                  !.status = "sorted",
                  !.sorted = sort_moves(generate_legal_moves(pos, pos.game_state.side_to_move).moves,
                                        1, FALSE, killer_moves, history_moves,
                                        pos.game_state.side_to_move)]
    /\ UNCHANGED <<pos, pos_state, call_stack, killer_moves, history_moves>>
    /\ UNCHANGED engine_vars

NextOrdering ==
    \/ OrderCutoff
    \/ OrderNewSearch
    \/ OrderSort

SpecOrdering == InitOrdering /\ [][NextOrdering]_vars

\* C24: after sort_moves in the mode that is not captures-only every capture
\* precedes every quiet move in the buffer, whatever the killer slots and the
\* history counters hold.
C24_CapturesBeforeQuiets ==
    (call.fn = "sort_moves" /\ call.status = "sorted") =>
        \A i \in DOMAIN call.sorted : \A j \in DOMAIN call.sorted :
            (i < j /\ is_capture(call.sorted[j])) => is_capture(call.sorted[i])

\* ------------------------------------------------------------------------
\* Board::is_square_attacked asked about one square of one position
\* ------------------------------------------------------------------------
\* the positions of test_is_square_attacked after the start position, in order
ATTACK_TEST_FENS ==
    <<
      \* "8/8/8/8/8/8/6N1/8 w - - 0 1"
      << <<"8", "/", "8", "/", "8", "/", "8", "/", "8", "/", "8", "/", "6", "N", "1", "/", "8">>, <<"w">>, <<"-">>, <<"-">>, <<"0">>, <<"1">> >>,
      \* "8/8/8/8/8/8/4P3/3B4 w - - 0 1"
      << <<"8", "/", "8", "/", "8", "/", "8", "/", "8", "/", "8", "/", "4", "P", "3", "/", "3", "B", "4">>, <<"w">>, <<"-">>, <<"-">>, <<"0">>, <<"1">> >>,
      \* "8/8/8/8/8/8/P7/R7 w - - 0 1"
      << <<"8", "/", "8", "/", "8", "/", "8", "/", "8", "/", "8", "/", "P", "7", "/", "R", "7">>, <<"w">>, <<"-">>, <<"-">>, <<"0">>, <<"1">> >>,
      \* "8/8/8/8/4Q3/8/8/8 w - - 0 1"
      << <<"8", "/", "8", "/", "8", "/", "8", "/", "4", "Q", "3", "/", "8", "/", "8", "/", "8">>, <<"w">>, <<"-">>, <<"-">>, <<"0">>, <<"1">> >>,
      \* "8/8/8/8/4K3/8/8/8 w - - 0 1"
      << <<"8", "/", "8", "/", "8", "/", "8", "/", "4", "K", "3", "/", "8", "/", "8", "/", "8">>, <<"w">>, <<"-">>, <<"-">>, <<"0">>, <<"1">> >>,
      \* "8/8/8/8/8/5N2/8/3Q4 w - - 0 1"
      << <<"8", "/", "8", "/", "8", "/", "8", "/", "8", "/", "5", "N", "2", "/", "8", "/", "3", "Q", "4">>, <<"w">>, <<"-">>, <<"-">>, <<"0">>, <<"1">> >>,
      \* "8/6n1/8/8/8/8/8/8 b - - 0 1"
      << <<"8", "/", "6", "n", "1", "/", "8", "/", "8", "/", "8", "/", "8", "/", "8", "/", "8">>, <<"b">>, <<"-">>, <<"-">>, <<"0">>, <<"1">> >>,
      \* "3b4/4p3/8/8/8/8/8/8 b - - 0 1"
      << <<"3", "b", "4", "/", "4", "p", "3", "/", "8", "/", "8", "/", "8", "/", "8", "/", "8", "/", "8">>, <<"b">>, <<"-">>, <<"-">>, <<"0">>, <<"1">> >>,
      \* "r7/p7/8/8/8/8/8/8 b - - 0 1"
      << <<"r", "7", "/", "p", "7", "/", "8", "/", "8", "/", "8", "/", "8", "/", "8", "/", "8">>, <<"b">>, <<"-">>, <<"-">>, <<"0">>, <<"1">> >>,
      \* "8/8/8/8/8/4q3/8/8 b - - 0 1"
      << <<"8", "/", "8", "/", "8", "/", "8", "/", "8", "/", "4", "q", "3", "/", "8", "/", "8">>, <<"b">>, <<"-">>, <<"-">>, <<"0">>, <<"1">> >>,
      \* "8/8/8/8/8/4k3/8/8 b - - 0 1"
      << <<"8", "/", "8", "/", "8", "/", "8", "/", "8", "/", "4", "k", "3", "/", "8", "/", "8">>, <<"b">>, <<"-">>, <<"-">>, <<"0">>, <<"1">> >>,
      \* "8/8/8/8/8/8/P7/8 w - - 0 1"
      << <<"8", "/", "8", "/", "8", "/", "8", "/", "8", "/", "8", "/", "P", "7", "/", "8">>, <<"w">>, <<"-">>, <<"-">>, <<"0">>, <<"1">> >>,
      \* "8/7p/8/8/8/8/8/8 b - - 0 1"
      << <<"8", "/", "7", "p", "/", "8", "/", "8", "/", "8", "/", "8", "/", "8", "/", "8">>, <<"b">>, <<"-">>, <<"-">>, <<"0">>, <<"1">> >>,
      \* "8/8/8/8/p7/8/8/R7 w - - 0 1"
      << <<"8", "/", "8", "/", "8", "/", "8", "/", "p", "7", "/", "8", "/", "8", "/", "R", "7">>, <<"w">>, <<"-">>, <<"-">>, <<"0">>, <<"1">> >>,
      \* "7b/8/5P2/8/8/8/8/8 b - - 0 1"
      << <<"7", "b", "/", "8", "/", "5", "P", "2", "/", "8", "/", "8", "/", "8", "/", "8", "/", "8">>, <<"b">>, <<"-">>, <<"-">>, <<"0">>, <<"1">> >>
    >>

AttackFens ==
    {ATTACK_TEST_FENS[i] : i \in DOMAIN ATTACK_TEST_FENS}
    \cup {START_POS_FEN, FEN_kiwipete, FEN_en_passant_d6}

InitAttack ==
    /\ InitWorker
    /\ pos_state = "ok"
    /\ killer_moves = {}
    /\ history_moves = {}
    /\ call_stack = <<>>
    /\ pos \in {parse_fen_string(fen).board : fen \in AttackFens}
    /\ \E sq \in Squares : \E attacker_side \in Sides :
          call = [fn |-> "is_square_attacked", square |-> sq,
                  attacker_side |-> attacker_side, status |-> "called", attacked |-> FALSE]

\* board.is_square_attacked(square, attacker_side)
AttackQuery ==
    /\ call.fn = "is_square_attacked"
    /\ call.status = "called"
    /\ call' = [call EXCEPT
                  !.status = "returned",
                  !.attacked = is_square_attacked(pos, call.square, call.attacker_side)]
    /\ UNCHANGED <<pos, pos_state, call_stack, killer_moves, history_moves>>
    /\ UNCHANGED engine_vars

NextAttack == AttackQuery

SpecAttack == InitAttack /\ [][NextAttack]_vars

AttackReturned == call.fn = "is_square_attacked" /\ call.status = "returned"

\* the square a move takes the moving piece (the king, for a castle) to
MoveTarget(mv, side) ==
    IF mv.kind = "Normal" THEN mv.to
    ELSE get_castling_positions(side, King, mv.side)[2]

\* some pseudo-legal move of the side, on the board as it is, goes to sq
MoveTargets(b, sq, side) ==
    \E moves \in {generate_pseudo_legal_moves(b, side)} :
    \E i \in DOMAIN moves : MoveTarget(moves[i], side) = sq

\* the board with a knight of the other side standing on sq, in place of
\* whatever stood there; a piece of the other side already there stays
WithOpponentOn(b, sq, side) ==
    IF sq \in get_occupancy_bb(b, opposite(side)) THEN b
    ELSE IF sq \in get_occupancy_bb(b, side)
    THEN add_piece(remove_piece(b, side, get_occupancy_piece(b, side, sq), sq),
                   opposite(side), Knight, sq)
    ELSE add_piece(b, opposite(side), Knight, sq)

\* some pseudo-legal capture of the side would take a piece standing on sq
CaptureTargets(b, sq, side) ==
    \E moves \in {generate_pseudo_legal_moves(WithOpponentOn(b, sq, side), side)} :
    \E i \in DOMAIN moves :
        /\ moves[i].kind = "Normal"
        /\ moves[i].to = sq
        /\ moves[i].captured # None

\* C25 as stated: is_square_attacked(sq, attacker_side) is true exactly when
\* some pseudo-legal move of attacker_side targets sq.
C25_AttackedIffMoveTargets ==
    AttackReturned =>
        (call.attacked <=> MoveTargets(pos, call.square, call.attacker_side))

\* C25: is_square_attacked(sq, attacker_side) is true exactly when
\* attacker_side would have a pseudo-legal capture onto sq if a piece of the
\* other side stood there: pawn diagonals, knight and king steps and slider
\* rays up to the first blocker count, whatever stands on sq; pawn pushes and
\* castling do not.
C25_AttackedIffCaptureTargets ==
    AttackReturned =>
        (call.attacked <=> CaptureTargets(pos, call.square, call.attacker_side))

\* an empty square on a pawn's diagonal: attacked, and no move goes there
C25_Witness ==
    /\ AttackReturned
    /\ call.attacked
    /\ call.square \notin pos.global_occupancy
    /\ get_pawn_attacks_mask(opposite(call.attacker_side), call.square)
          \cap get_bb(pos, call.attacker_side, Pawn) # {}
    /\ ~MoveTargets(pos, call.square, call.attacker_side)

\* ------------------------------------------------------------------------
\* generate_castling_moves asked for the castles of one side of one position
\* ------------------------------------------------------------------------
\* the positions of the castling tests of move_generator.rs, in order
CASTLING_TEST_FENS ==
    <<
      \* "4k2r/8/8/8/8/8/8/4K2R w Kk - 0 1"
      << <<"4", "k", "2", "r", "/", "8", "/", "8", "/", "8", "/", "8", "/", "8", "/", "8", "/", "4", "K", "2", "R">>, <<"w">>, <<"K", "k">>, <<"-">>, <<"0">>, <<"1">> >>,
      \* "r3k2r/8/8/8/8/8/8/R3K2R w KQkq - 0 1"
      << <<"r", "3", "k", "2", "r", "/", "8", "/", "8", "/", "8", "/", "8", "/", "8", "/", "8", "/", "R", "3", "K", "2", "R">>, <<"w">>, <<"K", "Q", "k", "q">>, <<"-">>, <<"0">>, <<"1">> >>,
      \* "8/8/8/8/8/8/8/RN2K3 b Q - 0 1"
      << <<"8", "/", "8", "/", "8", "/", "8", "/", "8", "/", "8", "/", "8", "/", "R", "N", "2", "K", "3">>, <<"b">>, <<"Q">>, <<"-">>, <<"0">>, <<"1">> >>,
      \* "8/8/8/8/8/8/8/R1N1K3 b Q - 0 1"
      << <<"8", "/", "8", "/", "8", "/", "8", "/", "8", "/", "8", "/", "8", "/", "R", "1", "N", "1", "K", "3">>, <<"b">>, <<"Q">>, <<"-">>, <<"0">>, <<"1">> >>,
      \* "8/8/8/8/8/8/8/R2QK3 b Q - 0 1"
      << <<"8", "/", "8", "/", "8", "/", "8", "/", "8", "/", "8", "/", "8", "/", "R", "2", "Q", "K", "3">>, <<"b">>, <<"Q">>, <<"-">>, <<"0">>, <<"1">> >>,
      \* "2r5/8/8/8/8/8/8/R3K3 w Q - 0 1"
      << <<"2", "r", "5", "/", "8", "/", "8", "/", "8", "/", "8", "/", "8", "/", "8", "/", "R", "3", "K", "3">>, <<"w">>, <<"Q">>, <<"-">>, <<"0">>, <<"1">> >>,
      \* "3r4/8/8/8/8/8/8/R3K3 w Q - 0 1"
      << <<"3", "r", "4", "/", "8", "/", "8", "/", "8", "/", "8", "/", "8", "/", "8", "/", "R", "3", "K", "3">>, <<"w">>, <<"Q">>, <<"-">>, <<"0">>, <<"1">> >>,
      \* "4r3/8/8/8/8/8/8/R3K3 w Q - 0 1"
      << <<"4", "r", "3", "/", "8", "/", "8", "/", "8", "/", "8", "/", "8", "/", "8", "/", "R", "3", "K", "3">>, <<"w">>, <<"Q">>, <<"-">>, <<"0">>, <<"1">> >>,
      \* "8/8/7b/8/8/8/8/R3K3 w Q - 0 1"
      << <<"8", "/", "8", "/", "7", "b", "/", "8", "/", "8", "/", "8", "/", "8", "/", "R", "3", "K", "3">>, <<"w">>, <<"Q">>, <<"-">>, <<"0">>, <<"1">> >>,
      \* "8/8/8/8/8/8/8/R3K3 w - - 0 1"
      << <<"8", "/", "8", "/", "8", "/", "8", "/", "8", "/", "8", "/", "8", "/", "R", "3", "K", "3">>, <<"w">>, <<"-">>, <<"-">>, <<"0">>, <<"1">> >>,
      \* "8/8/8/8/8/8/8/4KN1R b K - 0 1"
      << <<"8", "/", "8", "/", "8", "/", "8", "/", "8", "/", "8", "/", "8", "/", "4", "K", "N", "1", "R">>, <<"b">>, <<"K">>, <<"-">>, <<"0">>, <<"1">> >>,
      \* "8/8/8/8/8/8/8/4K1NR b K - 0 1"
      << <<"8", "/", "8", "/", "8", "/", "8", "/", "8", "/", "8", "/", "8", "/", "4", "K", "1", "N", "R">>, <<"b">>, <<"K">>, <<"-">>, <<"0">>, <<"1">> >>,
      \* "5r2/8/8/8/8/8/8/4K2R w K - 0 1"
      << <<"5", "r", "2", "/", "8", "/", "8", "/", "8", "/", "8", "/", "8", "/", "8", "/", "4", "K", "2", "R">>, <<"w">>, <<"K">>, <<"-">>, <<"0">>, <<"1">> >>,
      \* "6r1/8/8/8/8/8/8/4K2R w K - 0 1"
      << <<"6", "r", "1", "/", "8", "/", "8", "/", "8", "/", "8", "/", "8", "/", "8", "/", "4", "K", "2", "R">>, <<"w">>, <<"K">>, <<"-">>, <<"0">>, <<"1">> >>,
      \* "4r3/8/8/8/8/8/8/4K2R w K - 0 1"
      << <<"4", "r", "3", "/", "8", "/", "8", "/", "8", "/", "8", "/", "8", "/", "8", "/", "4", "K", "2", "R">>, <<"w">>, <<"K">>, <<"-">>, <<"0">>, <<"1">> >>,
      \* "8/8/8/1b6/8/8/8/4K2R w K - 0 1"
      << <<"8", "/", "8", "/", "8", "/", "1", "b", "6", "/", "8", "/", "8", "/", "8", "/", "4", "K", "2", "R">>, <<"w">>, <<"K">>, <<"-">>, <<"0">>, <<"1">> >>,
      \* "8/8/8/8/8/8/8/4K2R w - - 0 1"
      << <<"8", "/", "8", "/", "8", "/", "8", "/", "8", "/", "8", "/", "8", "/", "4", "K", "2", "R">>, <<"w">>, <<"-">>, <<"-">>, <<"0">>, <<"1">> >>,
      \* "4k1nr/8/8/8/8/8/8/8 w k - 0 1"
      << <<"4", "k", "1", "n", "r", "/", "8", "/", "8", "/", "8", "/", "8", "/", "8", "/", "8", "/", "8">>, <<"w">>, <<"k">>, <<"-">>, <<"0">>, <<"1">> >>,
      \* "4kn1r/8/8/8/8/8/8/8 w k - 0 1"
      << <<"4", "k", "n", "1", "r", "/", "8", "/", "8", "/", "8", "/", "8", "/", "8", "/", "8", "/", "8">>, <<"w">>, <<"k">>, <<"-">>, <<"0">>, <<"1">> >>,
      \* "4k2r/8/8/8/8/8/8/5R2 b k - 0 1"
      << <<"4", "k", "2", "r", "/", "8", "/", "8", "/", "8", "/", "8", "/", "8", "/", "8", "/", "5", "R", "2">>, <<"b">>, <<"k">>, <<"-">>, <<"0">>, <<"1">> >>,
      \* "4k2r/8/8/8/8/8/8/6R1 b k - 0 1"
      << <<"4", "k", "2", "r", "/", "8", "/", "8", "/", "8", "/", "8", "/", "8", "/", "8", "/", "6", "R", "1">>, <<"b">>, <<"k">>, <<"-">>, <<"0">>, <<"1">> >>,
      \* "4k2r/8/8/8/8/8/8/4R3 b k - 0 1"
      << <<"4", "k", "2", "r", "/", "8", "/", "8", "/", "8", "/", "8", "/", "8", "/", "8", "/", "4", "R", "3">>, <<"b">>, <<"k">>, <<"-">>, <<"0">>, <<"1">> >>,
      \* "4k2r/8/8/8/1B6/8/8/8 w k - 0 1"
      << <<"4", "k", "2", "r", "/", "8", "/", "8", "/", "8", "/", "1", "B", "6", "/", "8", "/", "8", "/", "8">>, <<"w">>, <<"k">>, <<"-">>, <<"0">>, <<"1">> >>,
      \* "4k2r/8/8/8/8/8/8/8 b - - 0 1"
      << <<"4", "k", "2", "r", "/", "8", "/", "8", "/", "8", "/", "8", "/", "8", "/", "8", "/", "8">>, <<"b">>, <<"-">>, <<"-">>, <<"0">>, <<"1">> >>,
      \* "rn2k3/8/8/8/8/8/8/8 w q - 0 1"
      << <<"r", "n", "2", "k", "3", "/", "8", "/", "8", "/", "8", "/", "8", "/", "8", "/", "8", "/", "8">>, <<"w">>, <<"q">>, <<"-">>, <<"0">>, <<"1">> >>,
      \* "r1n1k3/8/8/8/8/8/8/8 w q - 0 1"
      << <<"r", "1", "n", "1", "k", "3", "/", "8", "/", "8", "/", "8", "/", "8", "/", "8", "/", "8", "/", "8">>, <<"w">>, <<"q">>, <<"-">>, <<"0">>, <<"1">> >>,
      \* "r2nk3/8/8/8/8/8/8/8 w q - 0 1"
      << <<"r", "2", "n", "k", "3", "/", "8", "/", "8", "/", "8", "/", "8", "/", "8", "/", "8", "/", "8">>, <<"w">>, <<"q">>, <<"-">>, <<"0">>, <<"1">> >>,
      \* "r3k3/8/8/8/8/8/8/2R5 b q - 0 1"
      << <<"r", "3", "k", "3", "/", "8", "/", "8", "/", "8", "/", "8", "/", "8", "/", "8", "/", "2", "R", "5">>, <<"b">>, <<"q">>, <<"-">>, <<"0">>, <<"1">> >>,
      \* "r3k3/8/8/8/8/8/8/3R4 b q - 0 1"
      << <<"r", "3", "k", "3", "/", "8", "/", "8", "/", "8", "/", "8", "/", "8", "/", "8", "/", "3", "R", "4">>, <<"b">>, <<"q">>, <<"-">>, <<"0">>, <<"1">> >>,
      \* "r3k3/8/8/8/8/8/8/4R3 b q - 0 1"
      << <<"r", "3", "k", "3", "/", "8", "/", "8", "/", "8", "/", "8", "/", "8", "/", "8", "/", "4", "R", "3">>, <<"b">>, <<"q">>, <<"-">>, <<"0">>, <<"1">> >>,
      \* "r3k3/8/8/8/8/7B/8/8 b q - 0 1"
      << <<"r", "3", "k", "3", "/", "8", "/", "8", "/", "8", "/", "8", "/", "7", "B", "/", "8", "/", "8">>, <<"b">>, <<"q">>, <<"-">>, <<"0">>, <<"1">> >>,
      \* "r3k3/8/8/8/8/8/8/8 b - - 0 1"
      << <<"r", "3", "k", "3", "/", "8", "/", "8", "/", "8", "/", "8", "/", "8", "/", "8", "/", "8">>, <<"b">>, <<"-">>, <<"-">>, <<"0">>, <<"1">> >>
    >>

\* "1r2k3/8/8/8/8/8/8/R3K3 w Q - 0 1": b1 attacked, c1, d1 and e1 not
FEN_castling_b1_attacked ==
    << <<"1", "r", "2", "k", "3", "/", "8", "/", "8", "/", "8", "/", "8", "/", "8", "/", "8", "/", "R", "3", "K", "3">>, <<"w">>, <<"Q">>, <<"-">>, <<"0">>, <<"1">> >>

\* "r3k3/8/8/8/8/8/8/K6R w K - 0 1": the right K with the king on a1, in check
FEN_castling_king_a1_in_check ==
    << <<"r", "3", "k", "3", "/", "8", "/", "8", "/", "8", "/", "8", "/", "8", "/", "8", "/", "K", "6", "R">>, <<"w">>, <<"K">>, <<"-">>, <<"0">>, <<"1">> >>

CastleFens ==
    {CASTLING_TEST_FENS[i] : i \in DOMAIN CASTLING_TEST_FENS}
    \cup {START_POS_FEN, FEN_kiwipete, FEN_castling_b1_attacked, FEN_castling_rook_e1,
          FEN_castling_king_a1_in_check}

InitCastle ==
    /\ InitWorker
    /\ pos_state = "ok"
    /\ killer_moves = {}
    /\ history_moves = {}
    /\ call_stack = <<>>
    /\ pos \in {parse_fen_string(fen).board : fen \in CastleFens}
    /\ \E side \in Sides :
          call = [fn |-> "generate_castling_moves", side |-> side, status |-> "called",
                  moves |-> <<>>]

\* generate_castling_moves(&board, side)
CastleGenerate ==
    /\ call.fn = "generate_castling_moves"
    /\ call.status = "called"
    /\ call' = [call EXCEPT !.status = "returned",
                            !.moves = generate_castling_moves(pos, call.side)]
    /\ UNCHANGED <<pos, pos_state, call_stack, killer_moves, history_moves>>
    /\ UNCHANGED engine_vars

NextCastle == CastleGenerate

SpecCastle == InitCastle /\ [][NextCastle]_vars

CastleReturned == call.fn = "generate_castling_moves" /\ call.status = "returned"

RightOf(side, cside) ==
    IF side = White
    THEN (IF cside = KingSide THEN WHITE_KINGSIDE ELSE WHITE_QUEENSIDE)
    ELSE (IF cside = KingSide THEN BLACK_KINGSIDE ELSE BLACK_QUEENSIDE)

\* first-rank square of the side on a file (0 = a .. 7 = h)
HomeRankSquare(side, f) == IF side = White THEN f ELSE 56 + f

\* the squares between king and rook: f, g or b, c, d
BetweenSquares(side, cside) ==
    {HomeRankSquare(side, f) : f \in IF cside = KingSide THEN {5, 6} ELSE {1, 2, 3}}

\* the squares the king leaves, crosses and lands on: e, f, g or e, d, c
KingPathSquares(side, cside) ==
    {HomeRankSquare(side, f) : f \in IF cside = KingSide THEN {4, 5, 6} ELSE {4, 3, 2}}

\* C26: a castling move is generated only when the corresponding right is
\* present, the squares between king and rook are empty, and the king's
\* current square and every square it crosses or lands on are not attacked by
\* the opponent.
C26_CastlingOnlyWhenAllowed ==
    CastleReturned =>
        \A i \in DOMAIN call.moves :
        \A cside \in {call.moves[i].side} :
            /\ RightOf(call.side, cside) \in pos.game_state.castling_state
            /\ BetweenSquares(call.side, cside) \cap pos.global_occupancy = {}
            /\ \A sq \in KingPathSquares(call.side, cside) :
                  ~is_square_attacked(pos, sq, opposite(call.side))
            /\ HasKing(pos, call.side) =>
                  ~is_square_attacked(pos, get_king_square(pos, call.side),
                                      opposite(call.side))

\* ------------------------------------------------------------------------
\* uci.rs, the loop over the move tokens of a position command run one token
\* at a time: the token is matched against the legal moves and the move made
\* ------------------------------------------------------------------------
\* "4k3/8/8/8/8/8/8/4K3 b - - 0 65535"
FEN_full_moves_max ==
    << <<"4", "k", "3", "/", "8", "/", "8", "/", "8", "/", "8", "/", "8", "/", "8", "/", "4", "K", "3">>, <<"b">>, <<"-">>, <<"-">>, <<"0">>, <<"6", "5", "5", "3", "5">> >>

\* tokens of one game
MaxGamePlies == 256

\* "position startpos moves g1h3 g8h6 h3g1 h6g8 ..."
KnightGameToken(k) == KnightShuffle(k % 2 = 0, (k \div 2) % 2 = 0)

\* "position fen 4k3/8/8/8/8/8/8/4K3 b - - 0 65535 moves e8d8 e1d1 d8e8 d1e1 ..."
KingGameToken(k) ==
    IF k % 2 = 0
    THEN (IF (k \div 2) % 2 = 0 THEN <<"e", "8", "d", "8">> ELSE <<"d", "8", "e", "8">>)
    ELSE (IF (k \div 2) % 2 = 0 THEN <<"e", "1", "d", "1">> ELSE <<"d", "1", "e", "1">>)

GameToken(game, k) == IF game = "knights" THEN KnightGameToken(k) ELSE KingGameToken(k)

InitGame ==
    /\ InitWorker
    /\ pos_state = "ok"
    /\ killer_moves = {}
    /\ history_moves = {}
    /\ call_stack = <<>>
    /\ \E game \in {"knights", "kings"} :
          /\ pos = IF game = "knights" THEN get_start_position
                   ELSE parse_fen_string(FEN_full_moves_max).board
          /\ call = [fn |-> "position", game |-> game, k |-> 0]

\* one iteration of the loop: parse_uci_move on the token, make_move
GameMove ==
    /\ call.fn = "position"
    /\ call.k < MaxGamePlies
    /\ \E step \in {position_moves_step(pos, GameToken(call.game, call.k), FALSE)} :
          /\ step.ok
          /\ pos' = step.board
    /\ call' = [call EXCEPT !.k = @ + 1]
    /\ UNCHANGED <<pos_state, call_stack, killer_moves, history_moves>>
    /\ UNCHANGED engine_vars

NextGame == GameMove

SpecGame == InitGame /\ [][NextGame]_vars

\* C27: make sets the half-move clock to 0 when the moved piece is a pawn or
\* the move captures, and otherwise (castling included) increases it by
\* exactly one.
C27_HalfMoveClockStep ==
    [][IsMakeStep =>
         \A mv \in {LastMove(pos')} :
            pos'.game_state.half_move_clock =
               IF mv.kind = "Normal" /\ (mv.piece = Pawn \/ mv.captured # None)
               THEN 0
               ELSE pos.game_state.half_move_clock + 1]_vars

\* C28: every make flips the side to move, and the full-move counter
\* increases by one exactly when the side that moved was Black.
C28_SideFlipsFullMoveCounts ==
    [][IsMakeStep =>
         /\ pos'.game_state.side_to_move = opposite(pos.game_state.side_to_move)
         /\ pos'.game_state.full_moves_count =
               IF pos.game_state.side_to_move = Black
               THEN pos.game_state.full_moves_count + 1
               ELSE pos.game_state.full_moves_count]_vars

\* ------------------------------------------------------------------------
\* make / unmake pairing of the callers of make_move
\* ------------------------------------------------------------------------
\* the decoded position perft was called on; its history is empty
PerftStart == parse_fen_string(PERFT_EXPECTATIONS[call.test].fen).board

\* C29: every make performed by legal-move generation, perft, negamax and
\* search_bestmove is paired with one unmake on every exit path, so when any
\* of them returns the board and its history length equal their values at the
\* call, and at a node of ply p the history length is the call-time length
\* plus p.
C29_MakeUnmakePaired ==
    /\ (call.fn \notin {"perft", "search_bestmove"}) =>
          \A gen \in {generate_legal_moves(pos, pos.game_state.side_to_move)} :
              BoardEq(gen.board, pos)
    /\ (call.fn = "perft" /\ call.status = "running") =>
          Len(pos.history) = Len(call_stack) - 1
    /\ (call.fn = "perft" /\ call.status = "returned") => BoardEq(pos, PerftStart)
    /\ (call.fn = "search_bestmove" /\ call.status = "running") =>
          Len(pos.history) =
             Len(call.start.history) + Len(call_stack) - (IF call.returning THEN 0 ELSE 1)
    /\ (call.fn = "search_bestmove" /\ call.status = "returned") => BoardEq(pos, call.start)

\* ------------------------------------------------------------------------
\* the worker's board across a Position command that fails
\* ------------------------------------------------------------------------
\* C30: when a Position command fails to parse, the worker's board is left
\* exactly as it was before the command (only a successful parse replaces it),
\* although a search that was in flight has been stopped and joined and its
\* result discarded.
C30_FailedPositionKeepsBoard ==
    [][(/\ PastStopSearch("Position")
        /\ (worker_pc' = "panicked" \/ Len(handled') > Len(handled))) =>
          /\ TheCmd.text \in FailingPositionLines => board' = board
          /\ (TheCmd.text \notin FailingPositionLines) =>
                board' = parse_uci_position_command(TheCmd.text, FALSE).board
          /\ search_thread' = 0
          /\ search_result_rx' = 0
          /\ Running' = {}
          /\ worker_pc = "join" => (stop_token /\ threads'[search_thread].joined)
          /\ \A i \in NewEvents : ev_log'[i].go = 0]_vars

\* a failed Position that arrived with a search in flight has been handled
\* and the board is still the one an earlier Position set
C30_Witness ==
    /\ \E k \in DOMAIN handled :
          handled[k].type = "Position" /\ handled[k].failed /\ handled[k].go # 0
    /\ board # get_start_position
    /\ worker_pc = "poll"

====
